---------------------------- MODULE Spec2Model ----------------------------
(***************************************************************************)
(* Model of the GCN notice / circular consolidation engine:                *)
(*   gcn_notice_handler.py   (GCNNoticeHandler: name sequencing, identity  *)
(*                            lookup, CSV ledger, ASCII active window)     *)
(*   gcn_circular_handler.py (GCNCircularHandler: circular CSV database,   *)
(*                            priority merge into the ASCII active window) *)
(*   gcn_bot.py              (process_notice_and_send_message)             *)
(*                                                                         *)
(* Files are modelled by their rows.  A field of a row is a token          *)
(* [kind, v]: the text that is written to the file, classified by what the *)
(* pandas readers make of it.                                              *)
(***************************************************************************)
EXTENDS Integers, Sequences, FiniteSets, TLC

(***************************************************************************)
(* Bounds of the model                                                     *)
(***************************************************************************)
MaxOps == 3            \* operations per behaviour
MaxDay == 1            \* calendar days 1..MaxDay of the discovery dates
MaxCirculars == 2      \* circulars processed per behaviour
MaxWrites == 4         \* writes of the ASCII file per behaviour of SpecBackup
MaxChecks == 7         \* rounds of the connection monitor per behaviour
JitterSteps == 4       \* the jitter is a multiple of 1/JitterSteps second
MaxAttempt == 7        \* failed attempts 0..MaxAttempt handed to the backoff delay
FailingHandles == 4    \* the new stream handles 1..FailingHandles may fail their probe

(***************************************************************************)
(* Program constants                                                       *)
(***************************************************************************)
AlphabetLen == 26      \* len(ascii_uppercase) = len(ascii_lowercase)
ascii_max_events == 2  \* GCNNoticeHandler(ascii_max_events=...), the capacity N
max_backups == 2       \* _create_backup_with_limit(filepath, max_backups=...), the count K
CONNECTION_TIMEOUT == 300      \* Config.CONNECTION_TIMEOUT, seconds
max_reconnect_attempts == 5    \* gcn_bot.max_reconnect_attempts
BackoffCap == 60               \* min(2 ** reconnect_attempts, 60)
Cooldown == 300                \* time.sleep(300) at the maximum of attempts
CheckConnected == 60           \* time.sleep(60) between checks when connected
CheckDisconnected == 30        \* time.sleep(30) between checks when disconnected

Days == 1..MaxDay
Letters == 1..AlphabetLen

(***************************************************************************)
(* Tokens                                                                  *)
(***************************************************************************)
Tok(k, val) == [kind |-> k, v |-> val]
EMPTY  == Tok("empty", <<>>)     \* nothing between two separators
QEMPTY == Tok("qempty", <<>>)    \* "" (a quoted empty string)
NAN    == Tok("nan", <<>>)       \* the text nan / N/A, and pandas' NaN
STR_EMPTY == Tok("str", <<>>)    \* the value '' of a field read without pandas
GCNID  == Tok("id", <<>>)        \* a non-empty GCN_ID text (content not modelled)
NameTok(prefix, day, letter) == Tok("name", <<prefix, day, letter>>)
FacTok(f)    == Tok("fac", f)    \* a facility name
DigitsTok(d) == Tok("digits", d) \* a string of decimal digits, d \in Seq(0..9)
DecTok(d)    == Tok("dec", d)    \* str(float(int(d))): the digits d followed by ".0"
WordTok(w)   == Tok("word", w)   \* a text without blanks that is not a number
NumTok(x)    == Tok("num", x)    \* a decimal number, in units of 0.000001
DateTok(t)   == Tok("date", t)   \* "YYYY-MM-DD HH:MM:SS", t a logical time

\* values of a loaded DataFrame that are not texts
IntVal(d) == Tok("int", d)       \* numpy.int64
FltVal(d) == Tok("flt", d)       \* numpy.float64 holding the integer d

\* pandas' default na_values: the empty field, nan, N/A, ...
IsNA(t) == t.kind \in {"empty", "qempty", "nan"}
\* texts that pandas parses as numbers when it infers a column's dtype
IsNumeric(t) == t.kind \in {"digits", "dec", "num"}

\* int("007") = 7 and str(7) = "7": leading zeros are dropped
RECURSIVE StripZeros(_)
StripZeros(d) ==
  IF Len(d) > 1 /\ d[1] = 0 THEN StripZeros(Tail(d)) ELSE d

(***************************************************************************)
(* Facilities                                                              *)
(***************************************************************************)
\* the keys of GCNNoticeHandler.monitored_facilities
monitored_facilities ==
  {"SwiftBAT", "SwiftXRT", "SwiftUVOT", "FermiGBM", "FermiLAT", "AMON",
   "IceCubeCASCADE", "HAWC", "IceCubeBRONZE", "IceCubeGOLD", "CALET",
   "EinsteinProbe"}

\* substring tests '"Swift" in facility' etc. on the facility names in use
HasSwift(f)    == f \in {"Swift", "SwiftBAT", "SwiftXRT", "SwiftUVOT"}
HasFermi(f)    == f \in {"Fermi", "FermiGBM", "FermiLAT"}
HasIceCube(f)  == f \in {"IceCube", "IceCubeCASCADE", "IceCubeBRONZE", "IceCubeGOLD"}
HasAMON(f)     == f = "AMON"
HasEinstein(f) == f = "EinsteinProbe"

\* GCNNoticeHandler._normalize_facility_name on a facility name
notice_normalize_facility_name(f) ==
  IF f = "" THEN ""
  ELSE IF HasSwift(f) THEN "Swift"
  ELSE IF HasFermi(f) THEN "Fermi"
  ELSE IF HasIceCube(f) \/ HasAMON(f) THEN "IceCube"
  ELSE IF HasEinstein(f) THEN "EinsteinProbe"
  ELSE f

(***************************************************************************)
(* Columns.  csv_columns are the first nine of ascii_columns.              *)
(***************************************************************************)
cGCN_ID        == 1
cName          == 2
cRA            == 3
cDEC           == 4
cError         == 5
cDiscovery_UTC == 6
cFacility      == 7
cTrigger_num   == 8
cNotice_date   == 9
cRedshift      == 10
cHost_info     == 11
csv_columns    == 1..9
ascii_columns  == 1..11

(***************************************************************************)
(* pandas.read_csv: dtype inference of a column and the loaded values      *)
(***************************************************************************)
ColDtype(rows, c) ==
  IF \A i \in 1..Len(rows) : rows[i][c].kind = "digits" THEN "int64"
  ELSE IF \A i \in 1..Len(rows) : IsNumeric(rows[i][c]) \/ IsNA(rows[i][c])
       THEN "float64"
       ELSE "object"

\* the loaded value of the text t in a column of that dtype
Typed(dtype, t) ==
  IF IsNA(t) THEN NAN
  ELSE IF dtype = "int64" THEN IntVal(StripZeros(t.v))
  ELSE IF dtype = "float64" THEN
         IF t.kind = "digits" THEN FltVal(StripZeros(t.v))
         ELSE IF t.kind = "dec" THEN FltVal(t.v)
         ELSE t
  ELSE t

\* the loaded value of the field c of row i; only the texts of integers
\* depend on the dtype of the column
Load(rows, i, c) ==
  LET t == rows[i][c] IN
  IF t.kind \in {"digits", "dec"} THEN Typed(ColDtype(rows, c), t)
  ELSE Typed("object", t)

\* a function on 1..n as the tuple of its values
Tuple(f, n) == SubSeq(f, 1, n)

TypeDf(rows, n) ==
  Tuple([i \in 1..Len(rows) |-> Tuple([c \in 1..n |-> Load(rows, i, c)], n)], Len(rows))

\* str(value)
PyStr(t) ==
  IF t.kind = "int" THEN DigitsTok(t.v)
  ELSE IF t.kind = "flt" THEN DecTok(t.v)
  ELSE t

\* pd.notna(value)
NotNA(t) == ~IsNA(t)

\* a row as a list of texts: line.strip().split(',') and _parse_line_to_dict
\* give '' for an empty field
AsTexts(row) ==
  Tuple([c \in 1..Len(row) |-> IF row[c].kind \in {"empty", "qempty"} THEN STR_EMPTY
                                ELSE row[c]], Len(row))
\* a short row read by pandas: the missing fields on the right are NaN
PadTo(row, n) == Tuple([c \in 1..n |-> IF c <= Len(row) THEN row[c] ELSE NAN], n)

\* GCNNoticeHandler._safe_csv_read.  pd.read_csv(filepath) raises ParserError
\* for a row with more fields than the header ("Expected 9 fields, saw 10")
\* and fills a row with fewer fields with NaN.  After ParserError the file is
\* read line by line (lines 1303-1324): the rows of 9 fields are kept as lists
\* of texts.  No field of the Ledger holds a comma.
HasCsvFields(row) == Len(row) = 9
CsvParserError(file) == \E i \in 1..Len(file) : Len(file[i]) > 9
LineByLine(file) ==
  LET valid_rows == SelectSeq(file, HasCsvFields)
  IN  Tuple([i \in 1..Len(valid_rows) |-> AsTexts(valid_rows[i])], Len(valid_rows))
safe_csv_read(file) ==
  IF \A i \in 1..Len(file) : HasCsvFields(file[i]) THEN TypeDf(file, 9)
  ELSE IF CsvParserError(file) THEN LineByLine(file)
  ELSE TypeDf(Tuple([i \in 1..Len(file) |-> PadTo(file[i], 9)], Len(file)), 9)

\* pd.read_csv(output_ascii, sep=r'\s+', quotechar='"'): runs of blanks are one
\* separator, so an unquoted empty field disappears and the fields after it
\* move left; short rows are filled with NaN on the right
IsField(t) == t.kind # "empty"
PadRow(fields) ==
  Tuple([c \in ascii_columns |-> IF c <= Len(fields) THEN fields[c] ELSE NAN], 11)
WhitespaceRow(row) == PadRow(SelectSeq(row, IsField))
\* the same call raises ParserError for a row of more than 11 fields
AsciiParserError(file) ==
  \E i \in 1..Len(file) : Len(SelectSeq(file[i], IsField)) > 11
read_ascii_whitespace(file) ==
  TypeDf(Tuple([i \in 1..Len(file) |-> WhitespaceRow(file[i])], Len(file)), 11)

(***************************************************************************)
(* GCNNoticeHandler._normalize_facility_name on a loaded value.            *)
(* "Swift" in <number> raises TypeError: the result "TypeError" stands for *)
(* the raised exception.                                                   *)
(***************************************************************************)
Raises(t) ==
  \/ t.kind = "nan"
  \/ t.kind \in {"int", "flt"} /\ t.v # <<0>>

notice_normalize_value(t) ==
  IF Raises(t) THEN Tok("TypeError", <<>>)
  ELSE IF t.kind \in {"int", "flt"} THEN Tok("fac", "")
  ELSE IF t.kind = "fac" THEN Tok("fac", notice_normalize_facility_name(t.v))
  ELSE t

(***************************************************************************)
(* The name caches of GCNNoticeHandler                                     *)
(*   _name_cache     : dict (Facility, str(Trigger_num)) -> Name, kept in  *)
(*                     insertion order: a sequence of entries              *)
(*   _grb_name_cache : dict "PREFIX_YYMMDD" -> last letter; 0 = no key     *)
(***************************************************************************)
Prefixes == {"GRB", "EP", "IceCube"}
NoLetters == [k \in Prefixes \X Days |-> 0]

Entry(fac, trig, name) == [fac |-> fac, trig |-> trig, name |-> name]

HasKey(nc, fac, trig) == \E i \in 1..Len(nc) : nc[i].fac = fac /\ nc[i].trig = trig

\* d[key] = value on a Python dict
DictSet(nc, fac, trig, name) ==
  IF HasKey(nc, fac, trig)
  THEN [i \in 1..Len(nc) |->
          IF nc[i].fac = fac /\ nc[i].trig = trig THEN Entry(fac, trig, name)
          ELSE nc[i]]
  ELSE Append(nc, Entry(fac, trig, name))

\* _load_caches, lines 434-439 and 497-503: name mapping of the rows i.. of df
RECURSIVE CacheNames(_, _, _)
CacheNames(nc, df, i) ==
  IF i > Len(df) THEN nc
  ELSE IF NotNA(df[i][cFacility]) /\ NotNA(df[i][cTrigger_num]) /\ NotNA(df[i][cName])
       THEN CacheNames(DictSet(nc, df[i][cFacility], PyStr(df[i][cTrigger_num]),
                               df[i][cName]), df, i + 1)
       ELSE CacheNames(nc, df, i + 1)

\* _load_caches, lines 442-484: sequence tracking over the Name column
RECURSIVE TrackSequence(_, _, _)
TrackSequence(gc, df, i) ==
  IF i > Len(df) THEN gc
  ELSE LET name == df[i][cName] IN
       IF name.kind # "name" \/ <<name.v[1], name.v[2]>> \notin DOMAIN gc
       THEN TrackSequence(gc, df, i + 1)
       ELSE LET key == <<name.v[1], name.v[2]>> IN
            IF gc[key] = 0 \/ name.v[3] > gc[key]
            THEN TrackSequence([gc EXCEPT ![key] = name.v[3]], df, i + 1)
            ELSE TrackSequence(gc, df, i + 1)

\* _load_caches(force): the caches after the call; csvDf is the frame read from
\* the CSV file (line 430), asciiDf the one read from the ASCII file (line 494)
load_caches(force, nc, gc, csvDf, asciiDf) ==
  LET nc0 == IF force THEN <<>> ELSE nc
      nc1 == CacheNames(nc0, csvDf, 1)
      gc1 == TrackSequence(gc, csvDf, 1)
      nc2 == CacheNames(nc1, asciiDf, 1)
  IN  [nc |-> nc2, gc |-> gc1]

(***************************************************************************)
(* GCNNoticeHandler._event_exists(facility, trigger_num), after its forced *)
(* _load_caches: result is the Name found, NONE, or TypeError (raised by   *)
(* the loop over _name_cache, which is outside the try block).             *)
(***************************************************************************)
NONE == Tok("None", <<>>)
TypeError == Tok("TypeError", <<>>)

\* lines 534-541: first entry of the dict, in insertion order, that matches
RECURSIVE ScanNameCache(_, _, _, _)
ScanNameCache(nc, i, family, trig) ==
  IF i > Len(nc) THEN NONE
  ELSE LET normalized_existing == notice_normalize_value(nc[i].fac) IN
       IF normalized_existing = TypeError THEN TypeError
       ELSE IF normalized_existing = family /\ PyStr(nc[i].trig) = trig
            THEN nc[i].name
            ELSE ScanNameCache(nc, i + 1, family, trig)

\* lines 544-563: scan of the CSV rows; an exception ends the scan with no match
RECURSIVE ScanCsv(_, _, _, _)
ScanCsv(df, i, family, trig) ==
  IF i > Len(df) THEN NONE
  ELSE LET normalized_row_facility == notice_normalize_value(df[i][cFacility]) IN
       IF normalized_row_facility = TypeError THEN NONE
       ELSE IF normalized_row_facility = family /\ PyStr(df[i][cTrigger_num]) = trig
            THEN df[i][cName]
            ELSE ScanCsv(df, i + 1, family, trig)

event_exists(fac, trig, nc, gc, csvDf, asciiDf) ==
  LET loaded == load_caches(TRUE, nc, gc, csvDf, asciiDf)
      family == notice_normalize_value(FacTok(fac))
      hit    == ScanNameCache(loaded.nc, 1, family, trig)
      direct == ScanCsv(csvDf, 1, family, trig)
  IN  IF hit # NONE
      THEN [res |-> hit, nc |-> loaded.nc, gc |-> loaded.gc]
      ELSE IF direct # NONE
      THEN [res |-> direct, gc |-> loaded.gc,
            nc |-> DictSet(loaded.nc, FacTok(fac), trig, direct)]
      ELSE [res |-> NONE, nc |-> loaded.nc, gc |-> loaded.gc]

(***************************************************************************)
(* GCNNoticeHandler._generate_grb_name                                     *)
(***************************************************************************)
\* lines 602-617: prefix of the name by facility
NamePrefix(fac) ==
  IF HasIceCube(fac) \/ HasAMON(fac) THEN "IceCube"
  ELSE IF fac = "EinsteinProbe" THEN "EP"
  ELSE "GRB"

\* lines 629-651: the letter given to a new name when the cache holds `letter`
\* for the sequence key (0: the key is not in the cache)
NextLetterWrap(letter) ==
  IF letter = 0 THEN 1
  ELSE IF letter + 1 <= AlphabetLen THEN letter + 1 ELSE 1
NextLetter(letter) ==
  IF letter = 0 THEN 1
  ELSE IF letter + 1 <= AlphabetLen THEN letter + 1 ELSE AlphabetLen

\* the whole call: res is the name returned (or TypeError), nc and gc the caches
\* after the call
generate_grb_name(day, fac, trig, nc, gc, csvDf, asciiDf) ==
  LET ex  == event_exists(fac, trig, nc, gc, csvDf, asciiDf)
      key == <<NamePrefix(fac), day>>
      letter == NextLetter(ex.gc[key])
      new_name == NameTok(NamePrefix(fac), day, letter)
  IN  IF ex.res # NONE THEN ex
      ELSE [res |-> new_name,
            gc  |-> [ex.gc EXCEPT ![key] = letter],
            nc  |-> DictSet(ex.nc, FacTok(fac), trig, new_name)]

(***************************************************************************)
(* GCNNoticeHandler._create_notice_data: the nine stored fields            *)
(***************************************************************************)
\* round(float(x), 2) on a number in units of 0.000001
Round2(x) == ((x + 5000) \div 10000) * 10000

notice_data(n, name) ==
  <<GCNID, name, NumTok(Round2(n.pos)), NumTok(Round2(n.pos)), NumTok(Round2(n.err)),
    DateTok(<<n.day, 0>>), FacTok(n.fac), n.trig, DateTok(<<n.day, n.at>>)>>

(***************************************************************************)
(* GCNNoticeHandler.save_to_csv(notice_data): one row is written after the *)
(* rows of the file, whatever they are.                                    *)
(***************************************************************************)
save_to_csv_once(nd, file) ==
  IF \E i \in 1..Len(file) : file[i][cName] = nd[cName] THEN file ELSE Append(file, nd)
save_to_csv(nd, file) == Append(file, nd)

(***************************************************************************)
(* GCNNoticeHandler.save_to_ascii(notice_data): the rows of the ASCII file *)
(* after the call.  An exception leaves the file as it was.                *)
(***************************************************************************)
\* lines 1633-1643: index of the first row of the same mission and trigger,
\* 0 if there is none, -1 if _normalize_facility_name raises
RECURSIVE FindExisting(_, _, _, _)
FindExisting(df, i, family, trig) ==
  IF i > Len(df) THEN 0
  ELSE LET normalized_row_facility == notice_normalize_value(df[i][cFacility]) IN
       IF normalized_row_facility = TypeError THEN -1
       ELSE IF normalized_row_facility = family /\ PyStr(df[i][cTrigger_num]) = trig
            THEN i
            ELSE FindExisting(df, i + 1, family, trig)

\* lines 1653-1659: every field of notice_data that is not '' or None
\* overwrites the row's field; notice_data has no Redshift and no Host_info
UpdateRowBlank(row, nd) ==
  Tuple([c \in ascii_columns |-> IF c \in csv_columns THEN nd[c] ELSE EMPTY], 11)
UpdateRow(row, nd) ==
  Tuple([c \in ascii_columns |->
           IF c \in csv_columns /\ nd[c] # EMPTY THEN nd[c] ELSE row[c]], 11)
\* lines 1663-1675: a new row, Redshift and Host_info empty
NewRow(nd) ==
  Tuple([c \in ascii_columns |-> IF c \in csv_columns THEN nd[c] ELSE EMPTY], 11)

\* df.head(n)
DfHead(df, n) == SubSeq(df, 1, IF Len(df) < n THEN Len(df) ELSE n)

\* line 1704: round(float(x), 2) if pd.notnull(x) and x != '' else x
CanRound(t) == IsNA(t) \/ t.kind \in {"num", "int", "flt", "digits", "dec"}
RoundValue(t) ==
  IF IsNA(t) THEN t
  ELSE IF t.kind = "num" THEN NumTok(Round2(t.v))
  ELSE IF t.kind = "digits" THEN FltVal(StripZeros(t.v))
  ELSE IF t.kind \in {"int", "dec"} THEN FltVal(t.v)
  ELSE t
RoundRow(row) ==
  Tuple([c \in ascii_columns |->
           IF c \in {cRA, cDEC, cError} THEN RoundValue(row[c]) ELSE row[c]], 11)

\* lines 1715-1725: the text written for a value; '' is quoted only in the
\* three columns that are always quoted
QuotedColumns == {cName, cDiscovery_UTC, cNotice_date}
NoticeText(c, t) ==
  IF IsNA(t) THEN (IF c \in QuotedColumns THEN QEMPTY ELSE EMPTY)
  ELSE PyStr(t)
NoticeWriteRow(row) == Tuple([c \in ascii_columns |-> NoticeText(c, row[c])], 11)

\* the rows in memory before df.head
UpsertNotice(nd, df) ==
  LET idx == FindExisting(df, 1, notice_normalize_value(nd[cFacility]), nd[cTrigger_num])
  IN  IF idx > 0 THEN [df EXCEPT ![idx] = UpdateRow(df[idx], nd)]
      ELSE <<NewRow(nd)>> \o df

\* an exception is raised: TypeError in the search, ValueError in the rounding
SaveRaises(nd, df) ==
  LET kept == DfHead(UpsertNotice(nd, df), ascii_max_events)
  IN  \/ FindExisting(df, 1, notice_normalize_value(nd[cFacility]), nd[cTrigger_num]) = -1
      \/ \E i \in 1..Len(kept) : \E c \in {cRA, cDEC, cError} : ~CanRound(kept[i][c])

\* df is the frame read from asciiFile at line 1621
save_to_ascii(nd, asciiFile, df) ==
  LET kept == DfHead(UpsertNotice(nd, df), ascii_max_events)
  IN  IF SaveRaises(nd, df) THEN asciiFile
      ELSE Tuple([i \in 1..Len(kept) |-> NoticeWriteRow(RoundRow(kept[i]))], Len(kept))

(***************************************************************************)
(* GCNCircularHandler: facility priority                                   *)
(***************************************************************************)
\* _get_facility_priority(facility) on a facility name
get_facility_priority(f) ==
  IF f = "" THEN 0
  ELSE IF f \in {"SwiftXRT", "Swift-XRT"} THEN 10
  ELSE IF f \in {"SwiftBAT", "Swift-BAT"} THEN 7
  ELSE IF f = "Swift" THEN 6
  ELSE IF f \in {"FermiLAT", "Fermi-LAT"} THEN 5
  ELSE IF f = "SVOM" THEN 4
  ELSE IF f \in {"FermiGBM", "Fermi-GBM", "Fermi"} THEN 3
  ELSE IF f \in {"GECAM", "CALET"} THEN 2
  ELSE 1

\* the priority of str(value).strip() for a value of the Facility column: a
\* text that is no facility name ('nan' included) has the default priority
PriorityOfValue(t) == IF t.kind = "fac" THEN get_facility_priority(t.v) ELSE 1

\* _should_update_position(current_facility, new_facility)
should_update_position_ge(current, new) ==
  get_facility_priority(new) >= PriorityOfValue(current)
should_update_position(current, new) ==
  get_facility_priority(new) > PriorityOfValue(current)

(***************************************************************************)
(* GCNCircularHandler: the ASCII file                                      *)
(***************************************************************************)
\* _load_ascii_with_recovery: pd.read_csv(filepath, sep=' ', header=0,
\* dtype=str); every blank separates, an empty field is NaN, texts are kept
\* _parse_line_to_dict (lines 1036-1079): the line is cut at the blanks
\* outside quotes, an empty field between two blanks is not a field, the
\* fields are filled up with '' or cut to the length of the header
IsManualField(t) == t.kind # "empty"
parse_line_to_dict(row) ==
  LET fields == AsTexts(SelectSeq(row, IsManualField))
  IN  Tuple([c \in ascii_columns |-> IF c <= Len(fields) THEN fields[c] ELSE STR_EMPTY], 11)

\* _load_ascii_with_recovery: pd.read_csv(sep=' ', dtype=str) keeps every
\* text, '' is NaN, a short row is filled with NaN; it reads every line or
\* raises, so that the frame is returned as it is (line 988) unless a row
\* has more than 11 fields: then every line goes through _parse_line_to_dict
\* (lines 1022-1034)
load_ascii_with_recovery(file) ==
  IF \E i \in 1..Len(file) : Len(file[i]) > 11
  THEN Tuple([i \in 1..Len(file) |-> parse_line_to_dict(file[i])], Len(file))
  ELSE Tuple([i \in 1..Len(file) |->
           Tuple([c \in ascii_columns |->
                    IF c > Len(file[i]) THEN NAN
                    ELSE IF IsNA(file[i][c]) THEN NAN ELSE file[i][c]], 11)],
        Len(file))

\* _save_ascii_with_backup, lines 1096-1104: str(value).strip() of each
\* column; NaN is written as the text nan, '' as nothing
CircularWriteRow(row) ==
  Tuple([c \in ascii_columns |-> IF row[c] = STR_EMPTY THEN EMPTY ELSE row[c]], 11)

\* f"{x:.5f}" on a number in units of 0.000001
Round5(x) == ((x + 5) \div 10) * 10

\* lines 1205-1211: the error radius in degrees, f"{e:.6f}", "N/A" for None
ErrorInDegrees(e) ==
  IF e.unit = "arcsec" THEN (e.v * 1000000) \div 3600
  ELSE IF e.unit = "arcmin" THEN (e.v * 1000000) \div 60
  ELSE e.v * 1000000
ErrorText(e) == IF e.unit = "none" THEN NAN ELSE NumTok(ErrorInDegrees(e))

\* lines 1171-1177: first row whose Name is the event name, 0 if none
RECURSIVE FindByName(_, _, _)
FindByName(df, i, event_name) ==
  IF i > Len(df) THEN 0
  ELSE IF df[i][cName] = event_name THEN i
  ELSE FindByName(df, i + 1, event_name)

HasCoordinates(c) == c.pos >= 0

\* 'facility not in current_all': substring test on the Facility text
IsSubstring(f, t) ==
  /\ t.kind = "fac"
  /\ \/ f = t.v
     \/ f = "Swift" /\ HasSwift(t.v)
     \/ f = "Fermi" /\ HasFermi(t.v)

\* lines 1148-1161 after _ensure_ascii_columns (line 1305 keeps the eleven
\* ascii_columns only): Best_Facility and All_Facilities of a loaded row are
\* its Facility field
Best_Facility(row) == row[cFacility]
All_Facilities(row) == <<row[cFacility]>>

\* lines 1190-1192: All_Facilities of the row in memory after the merge
UpdatedAll(row, c) ==
  IF IsSubstring(c.fac, row[cFacility]) THEN All_Facilities(row)
  ELSE Append(All_Facilities(row), FacTok(c.fac))

\* lines 1179-1226: the existing row after the merge of circular c
CircularUpdateRowAlways(row, c) ==
  Tuple([col \in ascii_columns |->
     IF col = cGCN_ID THEN GCNID
     ELSE IF HasCoordinates(c) /\ col \in {cRA, cDEC} THEN NumTok(Round5(c.pos))
     ELSE IF HasCoordinates(c) /\ col = cError THEN ErrorText(c.err)
     ELSE IF HasCoordinates(c) /\ col = cFacility THEN FacTok(c.fac)
     ELSE row[col]], 11)
CircularUpdateRow(row, c) ==
  LET replace == should_update_position(Best_Facility(row), c.fac) /\ HasCoordinates(c) IN
  Tuple([col \in ascii_columns |->
     IF col = cGCN_ID THEN GCNID
     ELSE IF replace /\ col \in {cRA, cDEC} THEN NumTok(Round5(c.pos))
     ELSE IF replace /\ col = cError THEN ErrorText(c.err)
     ELSE IF replace /\ col = cFacility THEN FacTok(c.fac)
     ELSE IF replace /\ col = cTrigger_num /\ c.trig # NONE THEN c.trig
     ELSE IF col = cRedshift /\ c.z >= 0 THEN NumTok(c.z)
     ELSE row[col]], 11)

\* lines 1245-1262: the row of a new entry; Discovery_UTC is '' because
\* process_circular extracts no discovery time
CircularNewRow(c, time) ==
  <<GCNID, c.name, NumTok(Round5(c.pos)), NumTok(Round5(c.pos)), ErrorText(c.err),
    EMPTY, FacTok(c.fac), c.trig, DateTok(<<0, time>>),
    IF c.z >= 0 THEN NumTok(c.z) ELSE EMPTY, EMPTY>>

\* lines 1125-1136: the merge is skipped
SkipsAsciiUpdate(c) ==
  \/ c.name = NONE
  \/ c.fac = ""
  \/ HasSwift(c.fac) /\ c.trig = NONE /\ ~HasCoordinates(c)

\* _update_ascii_database(processed_data): the rows of the ASCII file after
\* the call.  f"{None:.6f}" in a new entry raises; the file is then not saved.
\* df is the frame loaded from asciiFile at line 1144
update_ascii_database(c, asciiFile, df, time) ==
  LET idx == FindByName(df, 1, c.name)
  IN  IF SkipsAsciiUpdate(c) THEN asciiFile
      ELSE IF idx > 0
      THEN Tuple([i \in 1..Len(df) |->
              CircularWriteRow(IF i = idx THEN CircularUpdateRow(df[i], c) ELSE df[i])],
                 Len(df))
      ELSE IF HasCoordinates(c) /\ c.trig # NONE
      THEN IF c.err.unit = "none" THEN asciiFile
           ELSE Tuple([i \in 1..Len(df) + 1 |->
                   CircularWriteRow(IF i <= Len(df) THEN df[i] ELSE CircularNewRow(c, time))],
                      Len(df) + 1)
      ELSE Tuple([i \in 1..Len(df) |-> CircularWriteRow(df[i])], Len(df))

(***************************************************************************)
(* GCNCircularHandler._update_csv_database: the circular CSV database.     *)
(* A row is [circular_id, event_name, facility, trigger_num, false_trigger,*)
(* processed_on]; the other columns take no part in any decision.          *)
(***************************************************************************)
CircularRow(c, time) ==
  [circular_id |-> c, event_name |-> c.name, facility |-> c.fac,
   trigger_num |-> IF c.trig = NONE THEN EMPTY ELSE c.trig,
   false_trigger |-> c.false, processed_on |-> time]

\* lines 805-810: pd.read_csv, then trigger_num.astype(str).replace('nan', '')
TriggerColumn(file) == Tuple([i \in 1..Len(file) |-> <<file[i].trigger_num>>], Len(file))
TriggerAsStr(file, i) ==
  LET t == Typed(ColDtype(TriggerColumn(file), 1), file[i].trigger_num) IN
  IF IsNA(t) THEN EMPTY ELSE PyStr(t)
read_circular_csv(file) ==
  Tuple([i \in 1..Len(file) |-> [file[i] EXCEPT !.trigger_num = TriggerAsStr(file, i)]],
        Len(file))

RECURSIVE FindCircular(_, _, _)
FindCircular(df, i, id) ==
  IF i > Len(df) THEN 0
  ELSE IF df[i].circular_id = id THEN i
  ELSE FindCircular(df, i + 1, id)

\* lines 835-848: every value of processed_data that is not None overwrites
OverwriteCircular(row, c, time) ==
  [row EXCEPT !.event_name = IF c.name = NONE THEN @ ELSE c.name,
              !.facility = c.fac,
              !.trigger_num = IF c.trig = NONE THEN @ ELSE c.trig,
              !.false_trigger = c.false,
              !.processed_on = time]

update_csv_database(c, file, time) ==
  LET df  == read_circular_csv(file)
      idx == FindCircular(df, 1, c)
  IN  IF idx > 0
      THEN [df EXCEPT ![idx] = OverwriteCircular(df[idx], c, time)]
      ELSE Append(df, CircularRow(c, time))

(***************************************************************************)
(* GCNNoticeHandler._verify_csv_integrity(repair=True), lines 1398-1418:   *)
(* rows whose Name was already seen are dropped and the file is rewritten  *)
(* from the loaded values.                                                 *)
(***************************************************************************)
HasDuplicateNames(df) ==
  \E i, j \in 1..Len(df) : i < j /\ df[i][cName] = df[j][cName]

IsFirstOfName(df, i) == \A j \in 1..(i - 1) : df[j][cName] # df[i][cName]

RECURSIVE DropDuplicates(_, _)
DropDuplicates(df, i) ==
  IF i > Len(df) THEN <<>>
  ELSE IF IsFirstOfName(df, i) THEN <<df[i]>> \o DropDuplicates(df, i + 1)
  ELSE DropDuplicates(df, i + 1)

\* DataFrame.to_csv: the text of a value
CsvText(t) == IF IsNA(t) THEN EMPTY ELSE PyStr(t)
to_csv(df) ==
  Tuple([i \in 1..Len(df) |-> Tuple([c \in csv_columns |-> CsvText(df[i][c])], 9)], Len(df))

verify_csv_integrity(file) ==
  LET df == safe_csv_read(file) IN
  IF HasDuplicateNames(df) THEN to_csv(DropDuplicates(df, 1)) ELSE file

(***************************************************************************)
(* Inputs                                                                  *)
(***************************************************************************)
NoticeFacilities == {"SwiftBAT", "SwiftXRT", "FermiGBM", "EinsteinProbe"}
\* TRIGGER_NUM: (\d+) of a text notice, str(data['id'][0]) of a JSON notice
\* ('UNKNOWN' when the JSON notice has no id)
Triggers == {DigitsTok(<<7>>), DigitsTok(<<0, 7>>)}
TriggersOf(fac) ==
  IF fac = "EinsteinProbe" THEN {WordTok("UNKNOWN")}
  ELSE IF fac = "FermiGBM" THEN {DigitsTok(<<7>>)}
  ELSE Triggers
NoticePositions == {123457}
NoticeErrors == {50000}

\* the notices of one day
Notices ==
  {n \in [fac : NoticeFacilities, trig : Triggers \cup {WordTok("UNKNOWN")}, day : {1},
          pos : NoticePositions, err : NoticeErrors, at : {0}] :
     n.trig \in TriggersOf(n.fac)}

CircularFacilities == {"SwiftXRT", "FermiGBM"}
CircularLetters == {1, 2}
CircularTriggers == {NONE, DigitsTok(<<7>>)}
CircularPositions == {-1, 234567}            \* -1: no coordinates extracted
NoError == [v |-> 0, unit |-> "none"]        \* error is None
CircularErrors == {NoError, [v |-> 36, unit |-> "arcsec"], [v |-> 3, unit |-> "arcmin"]}
CircularRedshifts == {-1, 500000}            \* -1: no redshift extracted

\* the circulars of the archive: a position comes with its error radius, a
\* retraction names the trigger and carries no position.  circularId and
\* content determine each other: the content stands for the circularId.
Circulars ==
  {c \in [name : {NameTok("GRB", 1, l) : l \in CircularLetters},
          fac : CircularFacilities, trig : CircularTriggers, pos : CircularPositions,
          err : CircularErrors, z : CircularRedshifts, false : BOOLEAN] :
     /\ c.pos < 0 <=> c.err = NoError
     /\ c.false => c.pos < 0 /\ c.trig # NONE
     /\ c.trig = NONE /\ c.pos >= 0 => c.err.unit = "arcsec"
     \* one circular of a second event, one circular that reports a redshift
     /\ c.name = NameTok("GRB", 1, 2) =>
          c.fac = "SwiftXRT" /\ c.trig # NONE /\ c.err.unit = "arcsec" /\ c.z < 0
     /\ c.z >= 0 => c.fac = "FermiGBM" /\ c.trig = NONE /\ c.pos < 0}

(***************************************************************************)
(* State                                                                   *)
(***************************************************************************)
VARIABLES
  csv,             \* rows of the notice CSV file (output_csv), in file order
  ascii,           \* rows of the ASCII file (output_ascii), in file order
  circ_csv,        \* rows of the circular CSV file
  name_cache,      \* GCNNoticeHandler._name_cache
  grb_name_cache,  \* GCNNoticeHandler._grb_name_cache
  cache_loaded,    \* GCNNoticeHandler._cache_loaded
  ops,             \* number of operations performed; the logical time
  circulars,       \* number of circulars processed
  last,            \* history: the last operation and its inputs
  resolved,        \* history: <<facility, trigger, name>> of the notices parsed
  merged,          \* history: for every ASCII row, the facilities merged into it
  threads,         \* where the notice thread and the circular process stand
  clock,           \* the wall clock in whole seconds: int(time.time())
  mtime,           \* modification time of the ASCII file; 0: no file yet
  backups,         \* the files output_ascii.backup.<stamp>
  running,         \* gcn_bot.running
  now,             \* datetime.now(), in seconds since the start of the bot
  last_heartbeat,  \* gcn_bot.last_heartbeat
  last_connection_status,  \* gcn_bot.last_connection_status
  reconnect_attempts,      \* gcn_bot.reconnect_attempts
  consumer,        \* gcn_bot.consumer: the number of the live stream handle
  handles,         \* number of stream handles created so far
  closed,          \* the stream handles that have been closed
  heartbeat_lock,  \* holder of gcn_bot.heartbeat_lock
  consumer_lock,   \* holder of gcn_bot.consumer_lock
  monitor,         \* where check_connection stands, and when its sleep ends
  main_loop,       \* where main stands, and its current_consumer
  checks,          \* rounds of check_connection begun
  beat_by          \* history: what has set last_heartbeat

\* the backup files of the ASCII file and what names and orders them
backupVars == <<clock, mtime, backups>>
\* the bot: its globals, the two locks and the two threads
botVars == <<running, now, last_heartbeat, last_connection_status,
             reconnect_attempts, consumer, handles, closed, heartbeat_lock,
             consumer_lock, monitor, main_loop, checks, beat_by>>
auxVars == <<backupVars, botVars>>
\* the store files and the handlers' caches
storeVars == <<csv, ascii, circ_csv, name_cache, grb_name_cache, cache_loaded,
               ops, circulars, last, resolved, merged, threads>>

vars == <<csv, ascii, circ_csv, name_cache, grb_name_cache, cache_loaded,
          ops, circulars, last, resolved, merged, threads, auxVars>>

\* no ASCII file and no backup of it
InitBackup ==
  /\ clock = 0
  /\ mtime = 0
  /\ backups = {}

\* gcn_bot at the start of main: the globals of lines 306-315, the consumer
\* of line 963, both threads about to start
InitBot ==
  /\ running = TRUE
  /\ now = 0
  /\ last_heartbeat = 0
  /\ last_connection_status = TRUE
  /\ reconnect_attempts = 0
  /\ consumer = 0
  /\ handles = 1
  /\ closed = {}
  /\ heartbeat_lock = "none"
  /\ consumer_lock = "none"
  /\ monitor = [at |-> "check", wake |-> 0]
  /\ main_loop = [at |-> "loop", current |-> 0]
  /\ checks = 1
  /\ beat_by = "start"

InitAux == InitBackup /\ InitBot

NoOp == [op |-> "none"]
\* both handlers are between two items
Idle == [notice |-> [at |-> "idle"], circular |-> [at |-> "idle"]]

Init ==
  /\ csv = <<>>
  /\ ascii = <<>>
  /\ circ_csv = <<>>
  /\ name_cache = <<>>
  /\ grb_name_cache = NoLetters
  /\ cache_loaded = FALSE
  /\ ops = 0
  /\ circulars = 0
  /\ last = NoOp
  /\ resolved = <<>>
  /\ merged = <<>>
  /\ threads = Idle
  /\ InitAux

(***************************************************************************)
(* GCNNoticeHandler.parse_notice -> _create_notice_data: the caches after  *)
(* the call; the result is the notice data, or None when TypeError is      *)
(* raised on the way.                                                      *)
(***************************************************************************)
Parse(n, g) ==
  /\ name_cache' = g.nc
  /\ grb_name_cache' = g.gc
  /\ cache_loaded' = TRUE
  /\ resolved' = IF g.res = TypeError THEN resolved
                 ELSE Append(resolved, <<n.fac, n.trig, g.res>>)

\* the row of the frame that save_to_ascii updates, 0 if it adds a row
ExistingIndex(nd, df) ==
  LET idx == FindExisting(df, 1, notice_normalize_value(nd[cFacility]), nd[cTrigger_num])
  IN  IF idx > 0 THEN idx ELSE 0

\* history of the facilities per row, following save_to_ascii
MergedAfterNotice(nd, df) ==
  LET idx == ExistingIndex(nd, df)
      m   == <<nd[cFacility], nd[cError].v>>
  IN  IF SaveRaises(nd, df) THEN merged
      ELSE IF idx > 0
      THEN DfHead([merged EXCEPT ![idx] = @ \cup {m}], ascii_max_events)
      ELSE DfHead(<<{m}>> \o merged, ascii_max_events)

\* process_notice_and_send_message(..., is_test=False): parse_notice, then
\* save_to_csv and save_to_ascii; the notice is the (ops + 1)-th item received
ProcessNotice(n0) ==
  LET n  == [n0 EXCEPT !.at = ops + 1]
      csvDf   == safe_csv_read(csv)
      asciiDf == read_ascii_whitespace(ascii)
      g  == generate_grb_name(n.day, n.fac, n.trig, name_cache, grb_name_cache,
                              csvDf, asciiDf)
      nd == notice_data(n, g.res)
  IN  /\ ops < MaxOps
      /\ ops' = ops + 1
      /\ Parse(n, g)
      /\ last' = [op |-> "notice", n |-> n, res |-> g.res,
                  saved |-> g.res # TypeError /\ ~SaveRaises(nd, asciiDf),
                  idx |-> IF g.res = TypeError THEN 0 ELSE ExistingIndex(nd, asciiDf)]
      /\ IF g.res = TypeError
         THEN UNCHANGED <<csv, ascii, merged>>
         ELSE /\ csv' = save_to_csv(nd, csv)
              /\ ascii' = save_to_ascii(nd, ascii, asciiDf)
              /\ merged' = MergedAfterNotice(nd, asciiDf)
      /\ UNCHANGED auxVars
      /\ UNCHANGED <<circ_csv, circulars, threads>>

\* the same with a save_to_csv that fails: open() or writerow() raises (the
\* disk is full, the file is not writable), save_to_csv logs the error and
\* returns False (lines 1579-1581), and the caller goes on to save_to_ascii
ProcessNoticeCsvFails(n0) ==
  LET n  == [n0 EXCEPT !.at = ops + 1]
      csvDf   == safe_csv_read(csv)
      asciiDf == read_ascii_whitespace(ascii)
      g  == generate_grb_name(n.day, n.fac, n.trig, name_cache, grb_name_cache,
                              csvDf, asciiDf)
      nd == notice_data(n, g.res)
  IN  /\ ops < MaxOps
      /\ ops' = ops + 1
      /\ Parse(n, g)
      /\ last' = [op |-> "notice_csv_failed", n |-> n, res |-> g.res,
                  saved |-> g.res # TypeError /\ ~SaveRaises(nd, asciiDf),
                  idx |-> IF g.res = TypeError THEN 0 ELSE ExistingIndex(nd, asciiDf)]
      /\ IF g.res = TypeError
         THEN UNCHANGED <<ascii, merged>>
         ELSE /\ ascii' = save_to_ascii(nd, ascii, asciiDf)
              /\ merged' = MergedAfterNotice(nd, asciiDf)
      /\ UNCHANGED auxVars
      /\ UNCHANGED <<csv, circ_csv, circulars, threads>>

\* process_notice_and_send_message(..., is_test=True): "Test mode: Skipping
\* database save"
TestNotice(n0) ==
  LET n == [n0 EXCEPT !.at = ops + 1]
      g == generate_grb_name(n.day, n.fac, n.trig, name_cache, grb_name_cache,
                             safe_csv_read(csv), read_ascii_whitespace(ascii))
  IN  /\ ops < MaxOps
      /\ ops' = ops + 1
      /\ Parse(n, g)
      /\ last' = [op |-> "test", n |-> n, res |-> g.res, saved |-> FALSE, idx |-> 0]
      /\ UNCHANGED auxVars
      /\ UNCHANGED <<csv, ascii, circ_csv, circulars, merged, threads>>

\* _update_ascii_database reaches _save_ascii_with_backup
CircularSaves(c, df) ==
  /\ ~SkipsAsciiUpdate(c)
  /\ ~(FindByName(df, 1, c.name) = 0 /\ HasCoordinates(c) /\ c.trig # NONE
       /\ c.err.unit = "none")

\* history of the facilities per row, following _update_ascii_database
MergedAfterCircular(c, df) ==
  LET idx == FindByName(df, 1, c.name)
      m   == <<FacTok(c.fac), IF HasCoordinates(c) THEN ErrorInDegrees(c.err) ELSE -1>>
  IN  IF ~CircularSaves(c, df) THEN merged
      ELSE IF idx > 0 THEN [merged EXCEPT ![idx] = @ \cup {m}]
      ELSE IF HasCoordinates(c) /\ c.trig # NONE THEN Append(merged, {m})
      ELSE merged

\* process_circular_from_json: process_circular, _update_csv_database,
\* _update_ascii_database
ProcessCircular(c) ==
  LET df == load_ascii_with_recovery(ascii) IN
  /\ ops < MaxOps
  /\ circulars < MaxCirculars
  /\ ops' = ops + 1
  /\ circulars' = circulars + 1
  /\ circ_csv' = update_csv_database(c, circ_csv, ops + 1)
  /\ ascii' = update_ascii_database(c, ascii, df, ops + 1)
  /\ merged' = MergedAfterCircular(c, df)
  /\ last' = [op |-> "circular", c |-> c, saved |-> CircularSaves(c, df),
              idx |-> IF SkipsAsciiUpdate(c) THEN 0 ELSE FindByName(df, 1, c.name)]
  /\ UNCHANGED auxVars
  /\ UNCHANGED <<csv, name_cache, grb_name_cache, cache_loaded, resolved, threads>>

\* GCNNoticeHandler.__init__ at a start of the process: empty caches, then
\* _check_verify_schedule.  `due`: the file <output_csv>.verify holds a time
\* more than verify_interval days ago.
Restart(due) ==
  /\ ops < MaxOps
  /\ ops' = ops + 1
  /\ name_cache' = <<>>
  /\ grb_name_cache' = NoLetters
  /\ cache_loaded' = FALSE
  /\ csv' = IF due THEN verify_csv_integrity(csv) ELSE csv
  /\ last' = [op |-> "restart", due |-> due]
  /\ UNCHANGED auxVars
  /\ UNCHANGED <<ascii, circ_csv, circulars, resolved, merged, threads>>

(***************************************************************************)
(* The same operations step by step.  process_notice_and_send_message      *)
(* calls parse_notice, save_to_csv and save_to_ascii one after the other;  *)
(* each takes GCNNoticeHandler.file_lock for itself and releases it on     *)
(* return.  GCNCircularHandler runs from its own main() and has its own    *)
(* file_lock.  Between two steps of one handler the other one may run.     *)
(* The histories `merged` and `resolved` of the whole operations are not   *)
(* continued here.                                                         *)
(***************************************************************************)
\* parse_notice: _generate_grb_name; _load_caches takes file_lock (line 418)
NoticeParse(n0) ==
  LET n  == [n0 EXCEPT !.at = ops + 1]
      g  == generate_grb_name(n.day, n.fac, n.trig, name_cache, grb_name_cache,
                              safe_csv_read(csv), read_ascii_whitespace(ascii))
  IN  /\ threads.notice.at = "idle"
      /\ ops < MaxOps
      /\ ops' = ops + 1
      /\ Parse(n, g)
      /\ threads' = IF g.res = TypeError THEN threads
                    ELSE [threads EXCEPT !.notice =
                            [at |-> "parsed", nd |-> notice_data(n, g.res)]]
      /\ last' = [op |-> "parse", n |-> n, res |-> g.res]
      /\ UNCHANGED auxVars
      /\ UNCHANGED <<csv, ascii, circ_csv, circulars, merged>>

\* save_to_csv: lock, append, unlock (lines 1522-1577)
NoticeSaveCsv ==
  /\ threads.notice.at = "parsed"
  /\ csv' = save_to_csv(threads.notice.nd, csv)
  /\ threads' = [threads EXCEPT !.notice.at = "csv_saved"]
  /\ last' = [op |-> "save_to_csv"]
  /\ UNCHANGED auxVars
  /\ UNCHANGED <<ascii, circ_csv, name_cache, grb_name_cache, cache_loaded, ops,
                 circulars, resolved, merged>>

\* save_to_ascii, first half: lock (line 1596) and read the file (line 1621)
NoticeLoadAscii ==
  /\ threads.notice.at = "csv_saved"
  /\ threads' = [threads EXCEPT !.notice =
                   [at |-> "ascii_loaded", nd |-> threads.notice.nd,
                    df |-> read_ascii_whitespace(ascii)]]
  /\ last' = [op |-> "load_ascii"]
  /\ UNCHANGED auxVars
  /\ UNCHANGED <<csv, ascii, circ_csv, name_cache, grb_name_cache, cache_loaded, ops,
                 circulars, resolved, merged>>

\* save_to_ascii, second half: upsert into the frame, write the file (lines
\* 1706-1728), unlock
NoticeWriteAscii ==
  /\ threads.notice.at = "ascii_loaded"
  /\ ascii' = save_to_ascii(threads.notice.nd, ascii, threads.notice.df)
  /\ threads' = [threads EXCEPT !.notice = [at |-> "idle"]]
  /\ last' = [op |-> "save_to_ascii"]
  /\ UNCHANGED auxVars
  /\ UNCHANGED <<csv, circ_csv, name_cache, grb_name_cache, cache_loaded, ops,
                 circulars, resolved, merged>>

\* _update_csv_database, then _update_ascii_database as far as the load:
\* lock of the circular handler (line 1138), _load_ascii_with_recovery (1144)
CircularLoad(c) ==
  /\ threads.circular.at = "idle"
  /\ ops < MaxOps
  /\ circulars < MaxCirculars
  /\ ops' = ops + 1
  /\ circulars' = circulars + 1
  /\ circ_csv' = update_csv_database(c, circ_csv, ops + 1)
  /\ threads' = [threads EXCEPT !.circular =
                   [at |-> "loaded", c |-> c, time |-> ops + 1,
                    df |-> load_ascii_with_recovery(ascii)]]
  /\ last' = [op |-> "load_circular"]
  /\ UNCHANGED auxVars
  /\ UNCHANGED <<csv, ascii, name_cache, grb_name_cache, cache_loaded, resolved, merged>>

\* _update_ascii_database from the search to _save_ascii_with_backup (line
\* 1270), unlock
CircularSave ==
  /\ threads.circular.at = "loaded"
  /\ ascii' = update_ascii_database(threads.circular.c, ascii, threads.circular.df,
                                    threads.circular.time)
  /\ threads' = [threads EXCEPT !.circular = [at |-> "idle"]]
  /\ last' = [op |-> "save_circular"]
  /\ UNCHANGED auxVars
  /\ UNCHANGED <<csv, circ_csv, name_cache, grb_name_cache, cache_loaded, ops,
                 circulars, resolved, merged>>

(***************************************************************************)
(* The readers and writers of the store files, applied to files as they    *)
(* are found.                                                              *)
(***************************************************************************)
\* _safe_csv_read(output_csv): the scan of the Ledger
SafeCsvRead ==
  /\ ops < MaxOps
  /\ ops' = ops + 1
  /\ last' = [op |-> "safe_csv_read", df |-> safe_csv_read(csv)]
  /\ UNCHANGED auxVars
  /\ UNCHANGED <<csv, ascii, circ_csv, name_cache, grb_name_cache, cache_loaded,
                 circulars, resolved, merged, threads>>

\* save_to_ascii(notice_data) for the notice n0 of an event of that name;
\* ParserError of the read at line 1621 is caught at line 1737 and the
\* method returns False
SaveToAscii(n0, name) ==
  LET n  == [n0 EXCEPT !.at = ops + 1]
      nd == notice_data(n, name)
      df == read_ascii_whitespace(ascii)
      completes == ~AsciiParserError(ascii) /\ ~SaveRaises(nd, df)
  IN  /\ ops < MaxOps
      /\ ops' = ops + 1
      /\ ascii' = IF completes THEN save_to_ascii(nd, ascii, df) ELSE ascii
      /\ last' = [op |-> "save_to_ascii", n |-> n, saved |-> completes]
      /\ UNCHANGED auxVars
      /\ UNCHANGED <<csv, circ_csv, name_cache, grb_name_cache, cache_loaded,
                     circulars, resolved, merged, threads>>

\* _update_ascii_database(processed_data) for the circular c
UpdateAsciiDatabase(c) ==
  LET df == load_ascii_with_recovery(ascii) IN
  /\ ops < MaxOps
  /\ circulars < MaxCirculars
  /\ ops' = ops + 1
  /\ circulars' = circulars + 1
  /\ ascii' = update_ascii_database(c, ascii, df, ops + 1)
  /\ last' = [op |-> "update_ascii_database", c |-> c, saved |-> CircularSaves(c, df)]
  /\ UNCHANGED auxVars
  /\ UNCHANGED <<csv, circ_csv, name_cache, grb_name_cache, cache_loaded,
                 resolved, merged, threads>>

(***************************************************************************)
(* The backup files of the ASCII file.  A backup file is a record of the   *)
(* second in its name, its modification time and its rows.  Modification   *)
(* times are logical: the number of the write that made the contents.      *)
(***************************************************************************)
\* the return value "" of _create_backup_with_limit, and a backup path
NoPath == <<>>
BackupPath(stamp) == <<stamp>>

\* _cleanup_old_backups with the sort of line 1640 not reversed
cleanup_oldest_first(files, limit) ==
  IF Cardinality(files) <= limit THEN {files}
  ELSE {keep \in SUBSET files :
          /\ Cardinality(keep) = limit
          /\ \A k \in keep, r \in files \ keep : k.mtime <= r.mtime}

\* _cleanup_old_backups(filepath, max_backups): the sets of files that can
\* be left.  Nothing is removed from max_backups files or fewer; otherwise
\* the files are sorted by modification time, newest first, and all but the
\* first max_backups are removed.  Files of equal modification time come in
\* the order of glob.glob, which is any order.
cleanup_old_backups(files, limit) ==
  IF Cardinality(files) <= limit THEN {files}
  ELSE {keep \in SUBSET files :
          /\ Cardinality(keep) = limit
          /\ \A k \in keep, r \in files \ keep : k.mtime >= r.mtime}

\* _create_backup_with_limit without its except clause: the error of
\* shutil.copy2 reaches the caller
create_backup_raising(file, fileMtime, files, second, limit, copyFails) ==
  IF fileMtime = 0 THEN [path |-> NoPath, files |-> {files}, raised |-> FALSE]
  ELSE IF copyFails THEN [path |-> NoPath, files |-> {files}, raised |-> TRUE]
  ELSE [path |-> BackupPath(second), raised |-> FALSE,
        files |-> cleanup_old_backups(
                    {b \in files : b.stamp # second}
                      \cup {[stamp |-> second, mtime |-> fileMtime, content |-> file]},
                    limit)]

\* _create_backup_with_limit(filepath, max_backups): "" when the file does
\* not exist; else shutil.copy2 to filepath.backup.<int(time.time())>, which
\* replaces a file of that name and keeps the modification time of the
\* source, then _cleanup_old_backups; any exception is logged and "" is
\* returned
create_backup_with_limit(file, fileMtime, files, second, limit, copyFails) ==
  IF fileMtime = 0 THEN [path |-> NoPath, files |-> {files}, raised |-> FALSE]
  ELSE IF copyFails THEN [path |-> NoPath, files |-> {files}, raised |-> FALSE]
  ELSE [path |-> BackupPath(second), raised |-> FALSE,
        files |-> cleanup_old_backups(
                    {b \in files : b.stamp # second}
                      \cup {[stamp |-> second, mtime |-> fileMtime, content |-> file]},
                    limit)]

\* _update_ascii_database(processed_data) for a circular that reaches
\* _save_ascii_with_backup(df, output_ascii): the backup with its limit, then
\* the write of the file; an exception of the backup step would pass through
\* _save_ascii_with_backup (the call at line 1086 is outside its try) and
\* leave the file as it was
SaveAsciiWithBackup(c, copyFails) ==
  LET df == load_ascii_with_recovery(ascii)
      b  == create_backup_with_limit(ascii, mtime, backups, clock, max_backups,
                                     copyFails)
  IN  /\ ops < MaxWrites
      /\ CircularSaves(c, df)
      /\ copyFails => mtime > 0
      /\ ops' = ops + 1
      /\ circulars' = circulars + 1
      /\ backups' \in b.files
      /\ IF b.raised
         THEN UNCHANGED <<ascii, mtime>>
         ELSE /\ ascii' = update_ascii_database(c, ascii, df, ops + 1)
              /\ mtime' = ops + 1
      /\ last' = [op |-> "save_ascii_with_backup", c |-> c, path |-> b.path,
                  raised |-> b.raised, copyFails |-> copyFails,
                  removed |-> ({f.stamp : f \in backups}
                                 \cup (IF b.path = NoPath THEN {} ELSE {clock}))
                                \ {f.stamp : f \in backups'}]
      /\ UNCHANGED <<csv, circ_csv, name_cache, grb_name_cache, cache_loaded,
                     resolved, merged, threads, clock>>
      /\ UNCHANGED botVars

\* save_to_ascii(notice_data) for the notice n0 of an event of that name: the
\* file is opened for writing at line 1706 as it is
SaveToAsciiFile(n0, name) ==
  LET n  == [n0 EXCEPT !.at = ops + 1]
      nd == notice_data(n, name)
      df == read_ascii_whitespace(ascii)
  IN  /\ ops < MaxWrites
      /\ ~AsciiParserError(ascii) /\ ~SaveRaises(nd, df)
      /\ ops' = ops + 1
      /\ ascii' = save_to_ascii(nd, ascii, df)
      /\ mtime' = ops + 1
      /\ last' = [op |-> "save_to_ascii_file", n |-> n]
      /\ UNCHANGED <<csv, circ_csv, name_cache, grb_name_cache, cache_loaded,
                     circulars, resolved, merged, threads, clock, backups>>
      /\ UNCHANGED botVars

\* a second of wall-clock time passes
Tick ==
  /\ clock < ops
  /\ clock' = clock + 1
  /\ UNCHANGED <<csv, ascii, circ_csv, name_cache, grb_name_cache, cache_loaded,
                 ops, circulars, last, resolved, merged, threads, mtime, backups>>
  /\ UNCHANGED botVars

(***************************************************************************)
(* gcn_bot: the connection monitor (check_connection, a daemon thread) and *)
(* the main loop.  Time passes while the monitor sleeps; the steps of the  *)
(* main loop take place at some moment in between.                         *)
(***************************************************************************)
\* line 2013: time_since_last_heartbeat.total_seconds() < CONNECTION_TIMEOUT
currently_connected_late(t, heartbeat) == t - heartbeat <= CONNECTION_TIMEOUT

currently_connected(t, heartbeat) == t - heartbeat < CONNECTION_TIMEOUT

\* line 2098: base_delay = min(2 ** reconnect_attempts, 60)
base_delay(n) == IF 2^n < BackoffCap THEN 2^n ELSE BackoffCap

\* lines 2099-2100: delay = base_delay + random.uniform(0, 1), in units of
\* 1/JitterSteps second; the jitter is one of 0..JitterSteps units
backoff_no_cap(n, jitter) == (2^n) * JitterSteps + jitter

backoff_delay(n, jitter) == base_delay(n) * JitterSteps + jitter

\* the monitor thread lives as long as the process: until main has returned
Alive == main_loop.at # "exited"

\* reconnect_attempts after the status check of lines 2016-2082: reset when
\* the connection is found restored
attempts_after_check(connected, status, attempts) ==
  IF connected /\ ~status THEN 0 ELSE attempts

\* line 2090 with > for >=
past_maximum(attempts) == attempts > max_reconnect_attempts

\* line 2090: reconnect_attempts >= max_reconnect_attempts
at_maximum(attempts) == attempts >= max_reconnect_attempts

\* check_connection, lines 2009-2105: one round from "while running" to the
\* first sleep.  With heartbeat_lock taken: the status is computed and
\* stored; when connected the lock is released and the thread sleeps 60 s;
\* when disconnected the thread sleeps with the lock held, for the cooldown
\* at the maximum of attempts and for the backoff delay otherwise.
MonitorCheck(jitter) ==
  LET connected == currently_connected(now, last_heartbeat)
      attempts  == attempts_after_check(connected, last_connection_status,
                                        reconnect_attempts)
  IN  /\ Alive
      /\ monitor.at = "check"
      /\ running
      /\ heartbeat_lock = "none"
      /\ last_connection_status' = connected
      /\ reconnect_attempts' = attempts
      /\ IF connected
         THEN /\ monitor' = [at |-> "sleep", wake |-> now + CheckConnected]
              /\ UNCHANGED heartbeat_lock
         ELSE /\ heartbeat_lock' = "monitor"
              /\ monitor' =
                   IF at_maximum(attempts)
                   THEN [at |-> "cooldown", wake |-> now + Cooldown]
                   ELSE [at |-> "backoff",
                         wake |-> now + backoff_delay(attempts, jitter) \div JitterSteps]
      /\ UNCHANGED <<running, now, last_heartbeat, consumer, handles, closed,
                     consumer_lock, main_loop, checks, beat_by>>
      /\ UNCHANGED <<storeVars, backupVars>>

\* check_connection, line 2009: "while running" ends the thread
MonitorStop ==
  /\ Alive
  /\ monitor.at = "check"
  /\ ~running
  /\ monitor' = [at |-> "done", wake |-> now]
  /\ UNCHANGED <<running, now, last_heartbeat, last_connection_status,
                 reconnect_attempts, consumer, handles, closed, heartbeat_lock,
                 consumer_lock, main_loop, checks, beat_by>>
  /\ UNCHANGED <<storeVars, backupVars>>

\* a cooldown that ends without the reset of the counter
MonitorCooldownKeeps ==
  /\ Alive
  /\ monitor.at = "cooldown"
  /\ checks < MaxChecks
  /\ checks' = checks + 1
  /\ now' = monitor.wake
  /\ heartbeat_lock' = "none"
  /\ monitor' = [at |-> "check", wake |-> monitor.wake]
  /\ UNCHANGED <<running, last_heartbeat, last_connection_status, consumer,
                 handles, closed, consumer_lock, main_loop, beat_by,
                 reconnect_attempts>>
  /\ UNCHANGED <<storeVars, backupVars>>
\* check_connection, lines 2093-2095: the end of time.sleep(300), then
\* reconnect_attempts = 0 and continue, which leaves the with block
MonitorCooldownDone ==
  /\ Alive
  /\ monitor.at = "cooldown"
  /\ checks < MaxChecks
  /\ checks' = checks + 1
  /\ now' = monitor.wake
  /\ reconnect_attempts' = 0
  /\ heartbeat_lock' = "none"
  /\ monitor' = [at |-> "check", wake |-> monitor.wake]
  /\ UNCHANGED <<running, last_heartbeat, last_connection_status, consumer,
                 handles, closed, consumer_lock, main_loop, beat_by>>
  /\ UNCHANGED <<storeVars, backupVars>>

\* check_connection, lines 2105-2107: the end of time.sleep(delay), then the
\* call of attempt_reconnection
MonitorBackoffDone ==
  /\ Alive
  /\ monitor.at = "backoff"
  /\ now' = monitor.wake
  /\ monitor' = [at |-> "reconnect", wake |-> monitor.wake]
  /\ UNCHANGED <<running, last_heartbeat, last_connection_status,
                 reconnect_attempts, consumer, handles, closed, heartbeat_lock,
                 consumer_lock, main_loop, checks, beat_by>>
  /\ UNCHANGED <<storeVars, backupVars>>

\* attempt_reconnection, lines 2137-2147: consumer_lock is taken and the
\* existing consumer is closed
AttemptClose ==
  /\ Alive
  /\ monitor.at = "reconnect"
  /\ consumer_lock = "none"
  /\ consumer_lock' = "monitor"
  /\ closed' = closed \cup {consumer}
  /\ monitor' = [at |-> "probing", wake |-> monitor.wake]
  /\ UNCHANGED <<running, now, last_heartbeat, last_connection_status,
                 reconnect_attempts, consumer, handles, heartbeat_lock,
                 main_loop, checks, beat_by>>
  /\ UNCHANGED <<storeVars, backupVars>>

\* attempt_reconnection, lines 2149-2179, and check_connection, lines
\* 2107-2124: a new consumer is created, subscribed and probed with
\* consume(timeout=2.0).  Without an exception it becomes the consumer,
\* reconnect_attempts is reset and last_heartbeat is set to now; with an
\* exception the new consumer is closed and reconnect_attempts is counted
\* up.  Both locks are released and the thread sleeps 30 s.
AttemptProbe(ok) ==
  /\ Alive
  /\ monitor.at = "probing"
  /\ handles' = handles + 1
  /\ IF ok
     THEN /\ consumer' = handles
          /\ reconnect_attempts' = 0
          /\ last_heartbeat' = now
          /\ beat_by' = "reconnected"
          /\ UNCHANGED closed
     ELSE /\ closed' = closed \cup {handles}
          /\ reconnect_attempts' = reconnect_attempts + 1
          /\ UNCHANGED <<consumer, last_heartbeat, beat_by>>
  /\ consumer_lock' = "none"
  /\ heartbeat_lock' = "none"
  /\ monitor' = [at |-> "sleep", wake |-> now + CheckDisconnected]
  /\ UNCHANGED <<running, now, last_connection_status, main_loop, checks>>
  /\ UNCHANGED <<storeVars, backupVars>>

\* check_connection, lines 2121-2124: the end of the sleep between two rounds
MonitorWake ==
  /\ Alive
  /\ monitor.at = "sleep"
  /\ checks < MaxChecks
  /\ checks' = checks + 1
  /\ now' = monitor.wake
  /\ monitor' = [at |-> "check", wake |-> monitor.wake]
  /\ UNCHANGED <<running, last_heartbeat, last_connection_status,
                 reconnect_attempts, consumer, handles, closed, heartbeat_lock,
                 consumer_lock, main_loop, beat_by>>
  /\ UNCHANGED <<storeVars, backupVars>>

\* main, lines 3126-3130 and 3243-3246: "while running", then the consumer is
\* read under consumer_lock; when running is False the loop is left
MainPick ==
  /\ main_loop.at = "loop"
  /\ IF running
     THEN /\ consumer_lock = "none"
          /\ main_loop' = [at |-> "picked", current |-> consumer]
     ELSE main_loop' = [at |-> "finally", current |-> main_loop.current]
  /\ UNCHANGED <<running, now, last_heartbeat, last_connection_status,
                 reconnect_attempts, consumer, handles, closed, heartbeat_lock,
                 consumer_lock, monitor, checks, beat_by>>
  /\ UNCHANGED <<storeVars, backupVars>>

\* what current_consumer.consume(timeout=1) brings: no message, a heartbeat,
\* a notice, a message with a connection error; on a closed consumer it
\* raises RuntimeError
Messages == {"none", "heartbeat", "notice", "error", "closed"}

\* main, lines 3133-3192 and 3213-3237: the poll and the dispatch of its
\* message.  A message is looked at only while running; a connection error
\* leads to trigger_reconnection; the error of a closed consumer names none
\* of the connection keywords and is only counted
MainPoll(message) ==
  /\ main_loop.at = "picked"
  /\ message = "closed" <=> main_loop.current \in closed
  /\ main_loop' =
       [main_loop EXCEPT !.at =
          IF message \in {"none", "closed"} THEN "loop"
          ELSE IF message = "error" THEN "trigger"
          ELSE IF ~running THEN "loop"
          ELSE message]
  /\ UNCHANGED <<running, now, last_heartbeat, last_connection_status,
                 reconnect_attempts, consumer, handles, closed, heartbeat_lock,
                 consumer_lock, monitor, checks, beat_by>>
  /\ UNCHANGED <<storeVars, backupVars>>

\* a handling of the heartbeat message that also resets the attempt counter
MainHeartbeatResetting ==
  /\ main_loop.at = "heartbeat"
  /\ heartbeat_lock = "none"
  /\ last_heartbeat' = now
  /\ reconnect_attempts' = 0
  /\ beat_by' = "heartbeat"
  /\ main_loop' = [main_loop EXCEPT !.at = "loop"]
  /\ UNCHANGED <<running, now, last_connection_status,
                 consumer, handles, closed, heartbeat_lock, consumer_lock,
                 monitor, checks>>
  /\ UNCHANGED <<storeVars, backupVars>>
\* update_heartbeat, lines 1997-2002, called at line 3191
MainHeartbeat ==
  /\ main_loop.at = "heartbeat"
  /\ heartbeat_lock = "none"
  /\ last_heartbeat' = now
  /\ beat_by' = "heartbeat"
  /\ main_loop' = [main_loop EXCEPT !.at = "loop"]
  /\ UNCHANGED <<running, now, last_connection_status, reconnect_attempts,
                 consumer, handles, closed, heartbeat_lock, consumer_lock,
                 monitor, checks>>
  /\ UNCHANGED <<storeVars, backupVars>>

\* a trigger_reconnection that sets the time back by less than the timeout
MainTriggerShort ==
  /\ main_loop.at = "trigger"
  /\ heartbeat_lock = "none"
  /\ last_heartbeat' = now - (CONNECTION_TIMEOUT - 1)
  /\ beat_by' = "trigger"
  /\ main_loop' = [main_loop EXCEPT !.at = "loop"]
  /\ UNCHANGED <<running, now, last_connection_status, reconnect_attempts,
                 consumer, handles, closed, heartbeat_lock, consumer_lock,
                 monitor, checks>>
  /\ UNCHANGED <<storeVars, backupVars>>
\* trigger_reconnection, lines 2181-2192, called at lines 3158 and 3225
MainTrigger ==
  /\ main_loop.at = "trigger"
  /\ heartbeat_lock = "none"
  /\ last_heartbeat' = now - (CONNECTION_TIMEOUT + 1)
  /\ beat_by' = "trigger"
  /\ main_loop' = [main_loop EXCEPT !.at = "loop"]
  /\ UNCHANGED <<running, now, last_connection_status, reconnect_attempts,
                 consumer, handles, closed, heartbeat_lock, consumer_lock,
                 monitor, checks>>
  /\ UNCHANGED <<storeVars, backupVars>>

\* process_notice_and_send_message, called at line 3200: up to the return of
\* save_to_csv
MainSaveCsv ==
  /\ main_loop.at = "notice"
  /\ main_loop' = [main_loop EXCEPT !.at = "csv_saved"]
  /\ UNCHANGED <<running, now, last_heartbeat, last_connection_status,
                 reconnect_attempts, consumer, handles, closed, heartbeat_lock,
                 consumer_lock, monitor, checks, beat_by>>
  /\ UNCHANGED <<storeVars, backupVars>>

\* process_notice_and_send_message: save_to_ascii and the return to the loop
MainSaveAscii ==
  /\ main_loop.at = "csv_saved"
  /\ main_loop' = [main_loop EXCEPT !.at = "loop"]
  /\ UNCHANGED <<running, now, last_heartbeat, last_connection_status,
                 reconnect_attempts, consumer, handles, closed, heartbeat_lock,
                 consumer_lock, monitor, checks, beat_by>>
  /\ UNCHANGED <<storeVars, backupVars>>

\* main, lines 3243-3262: the finally clause closes the consumer under
\* consumer_lock, then main returns and the process ends
MainFinally ==
  /\ main_loop.at = "finally"
  /\ consumer_lock = "none"
  /\ running' = FALSE
  /\ closed' = closed \cup {consumer}
  /\ main_loop' = [main_loop EXCEPT !.at = "exited"]
  /\ UNCHANGED <<now, last_heartbeat, last_connection_status,
                 reconnect_attempts, consumer, handles, heartbeat_lock,
                 consumer_lock, monitor, checks, beat_by>>
  /\ UNCHANGED <<storeVars, backupVars>>

\* signal_handler, lines 985-989: SIGINT or SIGTERM
Signal ==
  /\ Alive
  /\ running
  /\ running' = FALSE
  /\ UNCHANGED <<now, last_heartbeat, last_connection_status,
                 reconnect_attempts, consumer, handles, closed, heartbeat_lock,
                 consumer_lock, monitor, main_loop, checks, beat_by>>
  /\ UNCHANGED <<storeVars, backupVars>>

(***************************************************************************)
(* The main loop with the taking and the giving back of a lock as steps of *)
(* their own.  A "with lock:" block is entered when the lock is free; the  *)
(* thread stands before the block until then.                              *)
(***************************************************************************)
\* main, lines 3126-3129: "while running", then "with consumer_lock:" is entered
MainLockConsumer ==
  /\ main_loop.at = "loop"
  /\ IF running
     THEN /\ consumer_lock = "none"
          /\ consumer_lock' = "main"
          /\ main_loop' = [main_loop EXCEPT !.at = "reading"]
     ELSE /\ main_loop' = [main_loop EXCEPT !.at = "finally"]
          /\ UNCHANGED consumer_lock
  /\ UNCHANGED <<running, now, last_heartbeat, last_connection_status,
                 reconnect_attempts, consumer, handles, closed, heartbeat_lock,
                 monitor, checks, beat_by>>
  /\ UNCHANGED <<storeVars, backupVars>>

\* a main loop that handles the message inside the block of consumer_lock
MainReadConsumerHolding ==
  /\ main_loop.at = "reading"
  /\ main_loop' = [at |-> "heartbeat", current |-> consumer]
  /\ UNCHANGED <<running, now, last_heartbeat, last_connection_status,
                 reconnect_attempts, consumer, handles, closed, heartbeat_lock,
                 consumer_lock, monitor, checks, beat_by>>
  /\ UNCHANGED <<storeVars, backupVars>>
\* main, line 3130: current_consumer = consumer, and the block is left
MainReadConsumer ==
  /\ main_loop.at = "reading"
  /\ consumer_lock' = "none"
  /\ main_loop' = [at |-> "picked", current |-> consumer]
  /\ UNCHANGED <<running, now, last_heartbeat, last_connection_status,
                 reconnect_attempts, consumer, handles, closed, heartbeat_lock,
                 monitor, checks, beat_by>>
  /\ UNCHANGED <<storeVars, backupVars>>

\* update_heartbeat, line 2000, and trigger_reconnection, line 2190: "with
\* heartbeat_lock:" is entered
MainLockHeartbeat ==
  /\ main_loop.at \in {"heartbeat", "trigger"}
  /\ heartbeat_lock = "none"
  /\ heartbeat_lock' = "main"
  /\ main_loop' = [main_loop EXCEPT
                     !.at = IF @ = "heartbeat" THEN "beating" ELSE "triggering"]
  /\ UNCHANGED <<running, now, last_heartbeat, last_connection_status,
                 reconnect_attempts, consumer, handles, closed, consumer_lock,
                 monitor, checks, beat_by>>
  /\ UNCHANGED <<storeVars, backupVars>>

\* update_heartbeat, line 2001, and trigger_reconnection, line 2191: the
\* assignment of last_heartbeat, and the block is left
MainSetHeartbeat ==
  /\ main_loop.at \in {"beating", "triggering"}
  /\ last_heartbeat' = IF main_loop.at = "beating" THEN now
                       ELSE now - (CONNECTION_TIMEOUT + 1)
  /\ beat_by' = IF main_loop.at = "beating" THEN "heartbeat" ELSE "trigger"
  /\ heartbeat_lock' = "none"
  /\ main_loop' = [main_loop EXCEPT !.at = "loop"]
  /\ UNCHANGED <<running, now, last_connection_status, reconnect_attempts,
                 consumer, handles, closed, consumer_lock, monitor, checks>>
  /\ UNCHANGED <<storeVars, backupVars>>

\* main, lines 3243-3257: running = False, then "with consumer_lock:" of the
\* finally clause is entered
MainLockFinally ==
  /\ main_loop.at = "finally"
  /\ consumer_lock = "none"
  /\ consumer_lock' = "main"
  /\ running' = FALSE
  /\ main_loop' = [main_loop EXCEPT !.at = "closing"]
  /\ UNCHANGED <<now, last_heartbeat, last_connection_status,
                 reconnect_attempts, consumer, handles, closed, heartbeat_lock,
                 monitor, checks, beat_by>>
  /\ UNCHANGED <<storeVars, backupVars>>

\* main, lines 3258-3262: consumer.close(), the block is left and main returns
MainCloseFinally ==
  /\ main_loop.at = "closing"
  /\ closed' = closed \cup {consumer}
  /\ consumer_lock' = "none"
  /\ main_loop' = [main_loop EXCEPT !.at = "exited"]
  /\ UNCHANGED <<running, now, last_heartbeat, last_connection_status,
                 reconnect_attempts, consumer, handles, heartbeat_lock,
                 monitor, checks, beat_by>>
  /\ UNCHANGED <<storeVars, backupVars>>

\* check_connection, lines 2097-2100, for n failed attempts so far and a
\* jitter of jitter/JitterSteps second: the delay, in units of 1/JitterSteps
\* second, next to the delay computed before
BackoffDelay(n, jitter) ==
  LET delay == backoff_delay(n, jitter)
      first == last.op # "backoff_delay"
  IN  /\ last' = [op |-> "backoff_delay", n |-> n, jitter |-> jitter,
                  delay |-> delay,
                  prev_n |-> IF first THEN n ELSE last.n,
                  prev_jitter |-> IF first THEN jitter ELSE last.jitter,
                  prev_delay |-> IF first THEN delay ELSE last.delay]
      /\ UNCHANGED <<csv, ascii, circ_csv, name_cache, grb_name_cache, cache_loaded,
                     ops, circulars, resolved, merged, threads>>
      /\ UNCHANGED auxVars

(***************************************************************************)
(* The two parsers of a notice text.  A text is given by the patterns of   *)
(* the rule set that match it, or by the keys its JSON object has.         *)
(***************************************************************************)
\* the patterns of a rule set (_parse_notice_fermi, lines 1055-1063)
Patterns == {"notice_date", "trigger_num", "date", "time", "ra", "dec", "error"}

\* the keys _parse_notice_einstein_probe looks for
JsonKeys == {"ra", "dec", "ra_dec_error", "trigger_time", "id"}

\* _parse_notice(text, facility, patterns), lines 908-1046: the fields of
\* parsed_data that are not None, and whether notice data is returned.
\* notice_date starts as datetime.now(); trigger_date needs date and time.
parse_notice(strict_parsing, matched) ==
  LET found == {"notice_date"}
                 \cup (matched \cap {"ra", "dec", "error", "trigger_num"})
                 \cup (IF {"date", "time"} \subseteq matched THEN {"trigger_date"} ELSE {})
  IN  [found |-> found,
       accepted |-> /\ IF strict_parsing THEN matched = Patterns ELSE matched # {}
                    /\ found # {}]

\* _parse_notice_einstein_probe(text, facility), lines 1194-1287: error
\* starts as 0.0, notice_date as datetime.now(), trigger_num as 'UNKNOWN';
\* self.strict_parsing is not read
parse_notice_einstein_probe(strict_parsing, present) ==
  LET found == {"error", "notice_date", "trigger_num"}
                 \cup (present \cap {"ra", "dec"})
                 \cup (IF "trigger_time" \in present THEN {"trigger_date"} ELSE {})
  IN  [found |-> found, accepted |-> found # {}]

\* a key-value notice, parsed by a handler with that strict_parsing
ParseText(strict_parsing, matched) ==
  LET r == parse_notice(strict_parsing, matched)
  IN  /\ last' = [op |-> "parse", format |-> "text", strict |-> strict_parsing,
                  required |-> Patterns, present |-> matched,
                  found |-> r.found, accepted |-> r.accepted]
      /\ UNCHANGED <<csv, ascii, circ_csv, name_cache, grb_name_cache, cache_loaded,
                     ops, circulars, resolved, merged, threads>>
      /\ UNCHANGED auxVars

\* a JSON notice, parsed by a handler with that strict_parsing
ParseJson(strict_parsing, present) ==
  LET r == parse_notice_einstein_probe(strict_parsing, present)
  IN  /\ last' = [op |-> "parse", format |-> "json", strict |-> strict_parsing,
                  required |-> JsonKeys, present |-> present,
                  found |-> r.found, accepted |-> r.accepted]
      /\ UNCHANGED <<csv, ascii, circ_csv, name_cache, grb_name_cache, cache_loaded,
                     ops, circulars, resolved, merged, threads>>
      /\ UNCHANGED auxVars

(***************************************************************************)
(* One notice message from the poll to the return to the loop: main, lines *)
(* 3185-3209, process_notice_and_send_message and parse_notice.  The topic *)
(* is known or not; the text is given by the patterns that match it.  The  *)
(* texts here carry trigger number, date and time whenever they carry      *)
(* anything.                                                               *)
(***************************************************************************)
\* _create_notice_data, lines 865-875: a field that was not found is ''
create_notice_data(n, name, found) ==
  LET nd == notice_data(n, name)
  IN  Tuple([c \in csv_columns |->
               IF \/ c \in {cRA, cDEC} /\ ~({"ra", "dec"} \subseteq found)
                  \/ c = cError /\ "error" \notin found
               THEN EMPTY ELSE nd[c]], 9)

\* parse_notice(value, topic) with the name given before the text is checked
handler_parse_notice_naming_first(n, known, strict_parsing, matched, nc, gc, loaded, csvDf, asciiDf) ==
  LET r == parse_notice(strict_parsing, matched)
      g == generate_grb_name(n.day, n.fac, n.trig, nc, gc, csvDf, asciiDf)
  IN  IF ~known \/ ~r.accepted \/ g.res = TypeError
      THEN [res |-> NONE, nc |-> g.nc, gc |-> g.gc, loaded |-> TRUE]
      ELSE [res |-> create_notice_data(n, g.res, r.found),
            nc |-> g.nc, gc |-> g.gc, loaded |-> TRUE]
\* parse_notice(value, topic), lines 1468-1508: the notice data returned (NONE
\* when the extraction fails) and the caches after the call.  No facility
\* for the topic: None at line 1482.  _parse_notice returns None before it
\* reaches _create_notice_data when the patterns do not satisfy the mode;
\* an exception in _generate_grb_name is caught at line 1048.
handler_parse_notice(n, known, strict_parsing, matched, nc, gc, loaded, csvDf, asciiDf) ==
  LET r == parse_notice(strict_parsing, matched)
      g == generate_grb_name(n.day, n.fac, n.trig, nc, gc, csvDf, asciiDf)
  IN  IF ~known \/ ~r.accepted
      THEN [res |-> NONE, nc |-> nc, gc |-> gc, loaded |-> loaded]
      ELSE IF g.res = TypeError
      THEN [res |-> NONE, nc |-> g.nc, gc |-> g.gc, loaded |-> TRUE]
      ELSE [res |-> create_notice_data(n, g.res, r.found),
            nc |-> g.nc, gc |-> g.gc, loaded |-> TRUE]

\* one round of the main loop with a notice: "Failed to parse notice" is
\* returned at line 2808 and logged at line 3207, else the notice data is
\* saved to the CSV file and to the ASCII file; the loop takes the next message
MainNotice(n0, known, strict_parsing, matched) ==
  /\ main_loop.at = "loop"
  /\ running
  /\ ops < MaxOps
  /\ ops' = ops + 1
  /\ \E n \in {[n0 EXCEPT !.at = ops + 1]} :
     \E csvDf \in {safe_csv_read(csv)} :
     \E asciiDf \in {read_ascii_whitespace(ascii)} :
     \E x \in {handler_parse_notice(n, known, strict_parsing, matched, name_cache,
                                     grb_name_cache, cache_loaded, csvDf, asciiDf)} :
       /\ name_cache' = x.nc
       /\ grb_name_cache' = x.gc
       /\ cache_loaded' = x.loaded
       /\ last' = [op |-> "message", n |-> n, known |-> known,
                   strict |-> strict_parsing, matched |-> matched,
                   extracted |-> x.res # NONE,
                   after_failure |-> last.op = "message" /\ ~last.extracted,
                   nd |-> x.res,
                   idx |-> IF x.res = NONE THEN 0 ELSE ExistingIndex(x.res, asciiDf),
                   saved |-> x.res # NONE /\ ~SaveRaises(x.res, asciiDf)]
       /\ IF x.res = NONE
          THEN UNCHANGED <<csv, ascii>>
          ELSE /\ csv' = save_to_csv(x.res, csv)
               /\ ascii' = save_to_ascii(x.res, ascii, asciiDf)
  /\ UNCHANGED <<circ_csv, circulars, resolved, merged, threads>>
  /\ UNCHANGED auxVars

(***************************************************************************)
(* Specifications                                                          *)
(***************************************************************************)
\* the bot in production: notices, circulars and restarts
Next ==
  \/ \E n \in Notices : ProcessNotice(n)
  \/ \E c \in Circulars : ProcessCircular(c)
  \/ \E due \in BOOLEAN : Restart(due)

Spec == Init /\ [][Next]_vars

\* the notice handler alone, with notices in test mode
NextNotice ==
  \/ \E n \in Notices : ProcessNotice(n)
  \/ \E n \in Notices : TestNotice(n)
  \/ \E due \in BOOLEAN : Restart(due)

SpecNotice == Init /\ [][NextNotice]_vars

\* the name sequencer alone: notices in test mode, starting with a sequence
\* cache that holds any letter for one key (the letter is reached by that
\* many notices in test mode)
NameFacilities == {"SwiftBAT", "EinsteinProbe", "IceCubeGOLD"}
NameNotices ==
  [fac : NameFacilities, trig : {DigitsTok(<<7>>)}, day : Days,
   pos : NoticePositions, err : NoticeErrors, at : {0}]

InitName ==
  /\ csv = <<>>
  /\ ascii = <<>>
  /\ circ_csv = <<>>
  /\ name_cache = <<>>
  /\ \E key \in Prefixes \X Days : \E letter \in 0..AlphabetLen :
        grb_name_cache = [NoLetters EXCEPT ![key] = letter]
  /\ cache_loaded = TRUE
  /\ ops = 0
  /\ circulars = 0
  /\ last = NoOp
  /\ resolved = <<>>
  /\ merged = <<>>
  /\ threads = Idle
  /\ InitAux

NextName == \E n \in NameNotices : TestNotice(n)

SpecName == InitName /\ [][NextName]_vars

\* the bot with a Ledger file that cannot always be written
NextFaults ==
  \/ \E n \in Notices : ProcessNotice(n)
  \/ \E n \in Notices : ProcessNoticeCsvFails(n)
  \/ \E c \in Circulars : ProcessCircular(c)

SpecFaults == Init /\ [][NextFaults]_vars

\* the store files after damage from outside the program (a write cut short,
\* an editor): after a first row as the program writes it come rows as the
\* program writes them, rows with a field too many and rows cut short
RecoveryNotice(fac) ==
  [fac |-> fac, trig |-> DigitsTok(<<7>>), day |-> 1, pos |-> 123457, err |-> 50000,
   at |-> 0]
LedgerRowOf(fac, letter) == notice_data(RecoveryNotice(fac), NameTok("GRB", 1, letter))
WindowRowOf(fac, letter) == save_to_ascii(LedgerRowOf(fac, letter), <<>>, <<>>)[1]
TooLong(row)  == row \o <<WordTok("x"), WordTok("y"), WordTok("z")>>
TooShort(row) == SubSeq(row, 1, 5)
DamagedLedgers ==
  LET rows == {LedgerRowOf("FermiGBM", 2), TooLong(LedgerRowOf("FermiGBM", 3)),
               TooShort(LedgerRowOf("FermiGBM", 4))}
  IN  {<<LedgerRowOf("SwiftBAT", 1)>> \o rest :
          rest \in {<<>>} \cup {<<r>> : r \in rows} \cup {<<r1, r2>> : r1, r2 \in rows}}
DamagedWindows ==
  LET rows == {WindowRowOf("FermiGBM", 2), TooLong(WindowRowOf("FermiGBM", 3)),
               TooShort(WindowRowOf("FermiGBM", 4))}
  IN  {<<WindowRowOf("SwiftBAT", 1)>> \o rest : rest \in {<<>>} \cup {<<r>> : r \in rows}}

InitRecovery ==
  /\ csv \in DamagedLedgers
  /\ ascii \in DamagedWindows
  /\ circ_csv = <<>>
  /\ name_cache = <<>>
  /\ grb_name_cache = NoLetters
  /\ cache_loaded = FALSE
  /\ ops = 0
  /\ circulars = 0
  /\ last = NoOp
  /\ resolved = <<>>
  /\ merged = <<>>
  /\ threads = Idle
  /\ InitAux

\* a further notice and a circular of the first event of the file
RecoveryCirculars ==
  {c \in Circulars : c.name = NameTok("GRB", 1, 1) /\ c.fac = "SwiftXRT" /\ c.trig # NONE
                      /\ HasCoordinates(c)}
NextRecovery ==
  \/ SafeCsvRead
  \/ SaveToAscii(RecoveryNotice("SwiftXRT"), NameTok("GRB", 1, 1))
  \/ \E c \in RecoveryCirculars : UpdateAsciiDatabase(c)

SpecRecovery == InitRecovery /\ [][NextRecovery]_vars

\* the notice thread of the bot and the circular process side by side
ThreadNotices == {n \in Notices : n.fac \in {"SwiftBAT", "FermiGBM"} /\ n.trig = DigitsTok(<<7>>)}
ThreadCirculars ==
  {c \in Circulars : c.fac = "SwiftXRT" /\ HasCoordinates(c) /\ c.trig # NONE
                      /\ c.err.unit = "arcsec"}

NextThreads ==
  \/ \E n \in ThreadNotices : NoticeParse(n)
  \/ NoticeSaveCsv
  \/ NoticeLoadAscii
  \/ NoticeWriteAscii
  \/ \E c \in ThreadCirculars : CircularLoad(c)
  \/ CircularSave

SpecThreads == Init /\ [][NextThreads]_vars

\* the writers of the ASCII file and its backups
BackupNotices == {n \in Notices : n.fac = "SwiftBAT" /\ n.trig = DigitsTok(<<7>>)}
BackupCirculars ==
  {c \in Circulars : c.fac = "SwiftXRT" /\ HasCoordinates(c) /\ c.trig # NONE
                      /\ c.err.unit = "arcsec"}

NextBackup ==
  \/ \E c \in BackupCirculars, copyFails \in BOOLEAN : SaveAsciiWithBackup(c, copyFails)
  \/ \E n \in BackupNotices : SaveToAsciiFile(n, NameTok("GRB", n.day, 1))
  \/ Tick

SpecBackup == Init /\ [][NextBackup]_vars

\* the connection monitor and the main loop side by side
NextBot ==
  \/ \E jitter \in {0, JitterSteps} : MonitorCheck(jitter)
  \/ MonitorStop
  \/ MonitorCooldownDone
  \/ MonitorBackoffDone
  \/ AttemptClose
  \/ \E ok \in BOOLEAN : AttemptProbe(ok)
  \/ MonitorWake
  \/ MainPick
  \/ \E message \in Messages : MainPoll(message)
  \/ MainHeartbeat
  \/ MainTrigger
  \/ MainSaveCsv
  \/ MainSaveAscii
  \/ MainFinally
  \/ Signal

SpecBot == Init /\ [][NextBot]_vars

\* the backoff delay for every number of failed attempts and every jitter
NextBackoff == \E n \in 0..MaxAttempt, jitter \in 0..JitterSteps : BackoffDelay(n, jitter)

SpecBackoff == Init /\ [][NextBackoff]_vars

\* every notice text in both formats, in both parsing modes
NextParse ==
  \/ \E strict_parsing \in BOOLEAN, matched \in SUBSET Patterns :
       ParseText(strict_parsing, matched)
  \/ \E strict_parsing \in BOOLEAN, present \in SUBSET JsonKeys :
       ParseJson(strict_parsing, present)

SpecParse == Init /\ [][NextParse]_vars

\* the main loop with notices of known and unknown topics, in both parsing
\* modes, with texts that match every pattern, some patterns or none, and
\* restarts of the bot
MessageNotices == {n \in Notices : n.fac \in {"SwiftBAT", "FermiGBM"} /\ n.trig = DigitsTok(<<7>>)}
MessageTexts == {Patterns, Patterns \ {"ra", "dec"}, Patterns \ {"error"}, {}}
NextMessage ==
  \/ \E n \in MessageNotices, known \in BOOLEAN, strict_parsing \in BOOLEAN,
        matched \in MessageTexts : MainNotice(n, known, strict_parsing, matched)
  \/ \E due \in BOOLEAN : Restart(due)

SpecMessage == Init /\ [][NextMessage]_vars

\* the name sequencer with two missions that share the prefix GRB, their
\* notices saved, starting with any letter in the sequence cache
AlphabetNotices == {n \in Notices : n.fac \in {"SwiftBAT", "FermiGBM"} /\ n.trig = DigitsTok(<<7>>)}
NextAlphabet ==
  \/ \E n \in AlphabetNotices : ProcessNotice(n)
  \/ \E n \in NameNotices : TestNotice(n)

SpecAlphabet == InitName /\ [][NextAlphabet]_vars

\* the two threads with every lock operation of the main loop as a step
LockMessages == {"none", "heartbeat", "error", "closed"}
NextLocks ==
  \/ MonitorCheck(0)
  \/ MonitorStop
  \/ MonitorCooldownDone
  \/ MonitorBackoffDone
  \/ AttemptClose
  \/ \E ok \in BOOLEAN : AttemptProbe(ok)
  \/ MonitorWake
  \/ MainLockConsumer
  \/ MainReadConsumer
  \/ \E message \in LockMessages : MainPoll(message)
  \/ MainLockHeartbeat
  \/ MainSetHeartbeat
  \/ MainLockFinally
  \/ MainCloseFinally
  \/ Signal

SpecLocks == Init /\ [][NextLocks]_vars

\* notices of two instruments of one mission for one trigger, with and
\* without a position in the text, and the circulars
PositionNotices == {n \in Notices : n.fac \in {"SwiftBAT", "SwiftXRT"} /\ n.trig = DigitsTok(<<7>>)}
PositionTexts == {Patterns, Patterns \ {"ra", "dec"}}
NextPosition ==
  \/ \E n \in PositionNotices, matched \in PositionTexts : MainNotice(n, TRUE, FALSE, matched)
  \/ \E c \in Circulars : ProcessCircular(c)

SpecPosition == Init /\ [][NextPosition]_vars

\* The reconnection after a connection error.  The start is the bot after
\* trigger_reconnection at time 0 and k failed attempts, k = 0..5, with the
\* monitor at its next check: the k-th attempt ends 2^(k-1) s of backoff and
\* 30 s of sleep after the check before it.  The lost connection delivers
\* nothing more; the new handles 1..FailingHandles may fail their probe, the
\* later ones fetch without error and deliver heartbeats.
ReconnectTime(k) == (2^k - 1) + CheckDisconnected * k
InitReconnect ==
  /\ csv = <<>>
  /\ ascii = <<>>
  /\ circ_csv = <<>>
  /\ name_cache = <<>>
  /\ grb_name_cache = NoLetters
  /\ cache_loaded = FALSE
  /\ ops = 0
  /\ circulars = 0
  /\ last = NoOp
  /\ resolved = <<>>
  /\ merged = <<>>
  /\ threads = Idle
  /\ InitBackup
  /\ running = TRUE
  /\ \E k \in 0..max_reconnect_attempts :
       /\ reconnect_attempts = k
       /\ now = ReconnectTime(k)
       /\ monitor = [at |-> "check", wake |-> ReconnectTime(k)]
       /\ last_connection_status = (k = 0)
       /\ closed = IF k = 0 THEN {} ELSE 0..k
       /\ handles = k + 1
  /\ last_heartbeat = 0 - (CONNECTION_TIMEOUT + 1)
  /\ beat_by = "trigger"
  /\ consumer = 0
  /\ heartbeat_lock = "none"
  /\ consumer_lock = "none"
  /\ main_loop = [at |-> "loop", current |-> 0]
  /\ checks = 1

\* the steps of the monitor thread
MonitorStep ==
  \/ MonitorCheck(0)
  \/ MonitorCooldownDone
  \/ MonitorBackoffDone
  \/ AttemptClose
  \/ \E ok \in BOOLEAN : (ok \/ handles <= FailingHandles) /\ AttemptProbe(ok)
  \/ MonitorWake
\* the steps of the main loop: a closed handle raises, the lost connection
\* delivers nothing, a new handle delivers nothing or a heartbeat
MainStep ==
  \/ MainPick
  \/ \E message \in {"none", "heartbeat", "closed"} :
        /\ message = "heartbeat" => main_loop.current > 0
        /\ MainPoll(message)
  \/ MainHeartbeat
NextReconnect == MonitorStep \/ MainStep

\* the monitor is a thread of its own: a step it can take is taken
SpecReconnect == InitReconnect /\ [][NextReconnect]_vars /\ WF_vars(MonitorStep)

(***************************************************************************)
(* Properties                                                              *)
(***************************************************************************)
\* the entries of `resolved`: facility, trigger id, name returned
ResolvedFacility(i) == resolved[i][1]
ResolvedTrigger(i)  == resolved[i][2]
ResolvedName(i)     == resolved[i][3]
Family(fac) == notice_normalize_facility_name(fac)

\* C1: resolving the same (facility, triggerId) twice returns the same
\* canonical name, whether or not the row of the first notice was persisted
\* in between and also after a restart that empties the caches.
C1_SameNameTwice ==
  \A i, j \in 1..Len(resolved) :
     ResolvedFacility(i) = ResolvedFacility(j) /\ ResolvedTrigger(i) = ResolvedTrigger(j)
        => ResolvedName(i) = ResolvedName(j)

\* C2: two notices resolve to the same name if and only if their facilities
\* have the same mission family and their trigger ids are equal as strings,
\* and the trigger id read back from a Ledger row is the text that was written.
C2_SameIdentityIff ==
  /\ \A i \in 1..Len(csv) :
        PyStr(safe_csv_read(csv)[i][cTrigger_num]) = csv[i][cTrigger_num]
  /\ \A i, j \in 1..Len(resolved) :
        (Family(ResolvedFacility(i)) = Family(ResolvedFacility(j))
           /\ ResolvedTrigger(i) = ResolvedTrigger(j))
        <=> ResolvedName(i) = ResolvedName(j)

\* C3: for a (prefix, day) key that the sequence cache does not hold the new
\* name gets the first letter; for a key holding letter L it gets the
\* successor of L, and the last letter again when L is the last letter; so
\* successive new names of one key carry successive letters in receipt order.
NameKey(name) == <<name.v[1], name.v[2]>>
NameLetter(name) == name.v[3]
C3_LetterStep ==
  Len(resolved') = Len(resolved) + 1 =>
    LET name == resolved'[Len(resolved')][3]
        held == grb_name_cache[NameKey(name)]
    IN  /\ held = 0 => NameLetter(name) = 1
        /\ held \in 1..(AlphabetLen - 1) => NameLetter(name) = held + 1
        /\ held = AlphabetLen => NameLetter(name) = AlphabetLen
        /\ grb_name_cache'[NameKey(name)] = NameLetter(name)
\* the earlier names of the key of the i-th name
EarlierOfKey(i) ==
  {j \in 1..(i - 1) : NameKey(ResolvedName(j)) = NameKey(ResolvedName(i))}
C3_ReceiptOrder ==
  \A i \in 1..Len(resolved) : \A j \in EarlierOfKey(i) :
     (\A k \in EarlierOfKey(i) : k <= j) =>
        NameLetter(ResolvedName(i)) =
          IF NameLetter(ResolvedName(j)) < AlphabetLen
          THEN NameLetter(ResolvedName(j)) + 1 ELSE AlphabetLen
C3_NextName == []C3_ReceiptOrder /\ [][C3_LetterStep]_vars
\* the last letter was held and is given again
C3_Witness ==
  \E i, j \in 1..Len(resolved) :
     /\ i < j
     /\ NameKey(ResolvedName(i)) = NameKey(ResolvedName(j))
     /\ NameLetter(ResolvedName(i)) = AlphabetLen
     /\ NameLetter(ResolvedName(j)) = AlphabetLen

\* the identity of a stored row as the row is written: mission family and
\* trigger text
RowFamily(row) ==
  IF row[cFacility].kind = "fac" THEN Family(row[cFacility].v) ELSE ""
SameIdentity(r1, r2) ==
  /\ r1[cFacility].kind = "fac"
  /\ r2[cFacility].kind = "fac"
  /\ RowFamily(r1) = RowFamily(r2)
  /\ r1[cTrigger_num] = r2[cTrigger_num]
StoredRows == {csv[i] : i \in 1..Len(csv)} \cup {ascii[i] : i \in 1..Len(ascii)}

\* C4: after any sequence of notices and restarts every Ledger row and the
\* Active Window row of one identity carry the same Name.
C4_OneNamePerIdentity ==
  \A r1, r2 \in StoredRows : SameIdentity(r1, r2) => r1[cName] = r2[cName]

\* the rows of the Active Window as stored, and the position fields of a row
Window(file) == load_ascii_with_recovery(file)
PositionOf(row) == <<row[cRA], row[cDEC], row[cError], row[cFacility]>>

\* the step merged an item that carries a position into the existing row l.idx
IsMerge(l) ==
  /\ l.op \in {"notice", "circular"}
  /\ l.saved
  /\ l.idx > 0
IncomingFacility(l) == IF l.op = "notice" THEN l.n.fac ELSE l.c.fac
IncomingHasPosition(l) == l.op = "notice" \/ HasCoordinates(l.c)
IncomingError(l) ==
  IF l.op = "notice" THEN Round2(l.n.err) ELSE ErrorInDegrees(l.c.err)
IncomingPosition(l) ==
  IF l.op = "notice"
  THEN <<NumTok(Round2(l.n.pos)), NumTok(Round2(l.n.pos)), NumTok(Round2(l.n.err)),
         FacTok(l.n.fac)>>
  ELSE <<NumTok(Round5(l.c.pos)), NumTok(Round5(l.c.pos)), NumTok(ErrorInDegrees(l.c.err)),
         FacTok(l.c.fac)>>
Priority(fac) == get_facility_priority(fac)
StoredPriority(row) == PriorityOfValue(row[cFacility])

\* C5 (as stated): a merge replaces the best position and best facility if
\* and only if the incoming priority is strictly greater than the current
\* one, or the priorities are equal and the incoming error radius is strictly
\* smaller; otherwise both are left unchanged; on the notice upsert and on
\* the circular update.
C5_Better(l, row) ==
  \/ Priority(IncomingFacility(l)) > StoredPriority(row)
  \/ /\ Priority(IncomingFacility(l)) = StoredPriority(row)
     /\ row[cError].kind = "num"
     /\ IncomingError(l) < row[cError].v
Positioned(i) == {m \in merged[i] : m[2] >= 0}
TopPriority(i) ==
  CHOOSE p \in {PriorityOfValue(m[1]) : m \in Positioned(i)} :
     \A m \in Positioned(i) : PriorityOfValue(m[1]) <= p
SmallestError(i) ==
  CHOOSE e \in {m[2] : m \in {x \in Positioned(i) : PriorityOfValue(x[1]) = TopPriority(i)}} :
     \A m \in Positioned(i) : PriorityOfValue(m[1]) = TopPriority(i) => e <= m[2]

Max(a, b) == IF a >= b THEN a ELSE b
MergedAligned == Len(merged) = Len(ascii)

\* the facilities of a stored row, and the facilities merged into row i
ObservedFacilities(row) ==
  {All_Facilities(row)[k] : k \in 1..Len(All_Facilities(row))}
MergedFacilities(i) == {m[1] : m \in merged[i]}

\* C7: every merge adds the incoming facility to the event's set of observed
\* facilities, whether or not the position is replaced; the set of a stored
\* row is exactly the set of the facilities merged into it.
C7_AllFacilitiesKept ==
  \A i \in 1..Len(ascii) :
     i <= Len(merged) /\ Window(ascii)[i][cFacility].kind = "fac" =>
        ObservedFacilities(Window(ascii)[i]) = MergedFacilities(i)

\* C8: after a false-trigger item is processed for an event, the event has
\* no row in the Active Window, and the Ledger holds the row of the
\* false-trigger item.
C8_RetractionRemovesRow ==
  last.op = "circular" /\ last.c.false =>
     /\ \A i \in 1..Len(ascii) : Window(ascii)[i][cName] # last.c.name
     /\ \E i \in 1..Len(circ_csv) :
          circ_csv[i].circular_id = last.c /\ circ_csv[i].false_trigger

\* C9: the Ledger is append-only: the rows written earlier are an unchanged
\* prefix of the Ledger after every operation (append, cache load, integrity
\* verification with repair, re-processing of an item already seen).
IsPrefix(a, b) == Len(a) <= Len(b) /\ SubSeq(b, 1, Len(a)) = a
C9_AppendOnly == [][IsPrefix(csv, csv') /\ IsPrefix(circ_csv, circ_csv')]_vars

\* C10: every notice that is extracted successfully appends exactly one
\* Ledger row, also a repeat notice of a known identity, and the rows of the
\* Ledger are in the order in which the notices were received.
ReceiptStamp(row) == row[cNotice_date].v[2]
C10_ReceiptOrder ==
  \A i, j \in 1..Len(csv) : i < j => ReceiptStamp(csv[i]) < ReceiptStamp(csv[j])
C10_AppendsOne ==
  last'.op = "notice" /\ last'.res # TypeError =>
     /\ Len(csv') = Len(csv) + 1
     /\ IsPrefix(csv, csv')
     /\ LET row == csv'[Len(csv')]
        IN  /\ row[cName] = last'.res
            /\ row[cFacility] = FacTok(last'.n.fac)
            /\ row[cTrigger_num] = last'.n.trig
            /\ ReceiptStamp(row) = last'.n.at
C10_OneRowPerNotice == []C10_ReceiptOrder /\ [][C10_AppendsOne]_vars
\* a repeat notice of a known identity was appended after the first one
C10_Witness ==
  /\ last.op = "notice"
  /\ last.idx > 0
  /\ Len(csv) >= 2
  /\ csv[Len(csv)][cName] = csv[Len(csv) - 1][cName]
  /\ csv[Len(csv)][cName] = last.res

\* C11: after any sequence of writes by any writer the Active Window file
\* holds at most ascii_max_events rows.
C11_AtMostN == Len(ascii) <= ascii_max_events

\* the time of the last update a stored row carries, and the event a stored
\* row belongs to
UpdateStamp(row) ==
  IF row[cNotice_date].kind = "date" THEN row[cNotice_date].v[2] ELSE 0
SameEvent(a, b) ==
  /\ a[cName] = b[cName]
  /\ a[cFacility] = b[cFacility]
  /\ a[cTrigger_num] = b[cTrigger_num]
Remains(row, file) == \E k \in 1..Len(file) : SameEvent(row, Window(file)[k])
\* the step saved a notice of an event the full Active Window did not hold
IsEvictingInsert(l, file) ==
  /\ l.op = "notice"
  /\ l.saved
  /\ l.idx = 0
  /\ Len(file) >= ascii_max_events

\* C12: when the upsert of a new event would exceed ascii_max_events rows,
\* exactly ascii_max_events rows remain, the new event is among them, and every
\* row removed was updated no later than every row kept.
C12_EvictsLeastRecentlyUpdated ==
  [][IsEvictingInsert(last', ascii) =>
       LET before == Window(ascii)
       IN /\ Len(ascii') = ascii_max_events
          /\ Window(ascii')[1][cName] = last'.res
          /\ \A i, j \in 1..Len(before) :
               Remains(before[i], ascii') /\ ~Remains(before[j], ascii') =>
                 UpdateStamp(before[j]) <= UpdateStamp(before[i])]_vars

\* the stored row belongs to the identity (mission family, trigger id) of notice n
RowOfIdentity(row, n) ==
  /\ row[cFacility].kind = "fac"
  /\ RowFamily(row) = Family(n.fac)
  /\ row[cTrigger_num] = n.trig

\* C13: a save whose (mission family, trigger id) matches a row of the Active
\* Window updates that row in place and adds no second row, so that no two
\* rows share family and trigger id.
C13_UpdatesInPlace ==
  [][last'.op = "notice" /\ last'.saved
       /\ (\E k \in 1..Len(ascii) : RowOfIdentity(ascii[k], last'.n))
     => /\ last'.idx > 0
        /\ Len(ascii') = Len(ascii)]_vars

\* the receipt time of the first Ledger row of an event name (0: no row)
FirstNoticeTime(name, ledger) ==
  IF \E k \in 1..Len(ledger) : ledger[k][cName] = name
  THEN ReceiptStamp(ledger[CHOOSE k \in 1..Len(ledger) :
                             /\ ledger[k][cName] = name
                             /\ \A m \in 1..(k - 1) : ledger[m][cName] # name])
  ELSE 0

\* C14: every merge into an existing row sets the row's last-update time to
\* the time of the incoming item and leaves the event's first-notice time as
\* it was.
C14_MergeSetsUpdateTime ==
  [][IsMerge(last') /\ last'.idx <= Len(ascii') =>
       LET name == Window(ascii)[last'.idx][cName]
       IN /\ UpdateStamp(Window(ascii')[last'.idx]) = ops'
          /\ FirstNoticeTime(name, csv') = FirstNoticeTime(name, csv)]_vars

\* the auxiliary values an incoming item carries (EMPTY: none)
IncomingRedshift(l) ==
  IF l.op = "circular" /\ l.c.z >= 0 THEN NumTok(l.c.z) ELSE EMPTY
IncomingDiscovery(l) ==
  IF l.op = "notice" THEN DateTok(<<l.n.day, 0>>) ELSE EMPTY
MergedValue(incoming, stored) == IF incoming # EMPTY THEN incoming ELSE stored

LedgerRowInWindow(k) ==
  \E i \in 1..Len(ascii) :
     /\ Window(ascii)[i][cName] = csv[k][cName]
     /\ UpdateStamp(Window(ascii)[i]) = ReceiptStamp(csv[k])

\* C16: the persist sequence of one notice is atomic for every other thread:
\* in no state does the Ledger hold the row of a notice while the Active
\* Window does not yet reflect that notice.
C16_PersistAtomic ==
  Len(csv) > 0 => LedgerRowInWindow(Len(csv))

\* a handler is inside its load-modify-save cycle on the Active Window file
NoticeInCycle == threads.notice.at = "ascii_loaded"
CircularInCycle == threads.circular.at = "loaded"

\* C17: the notice handler and the circular handler are never inside the
\* load-modify-save cycle of the Active Window file at the same time.
C17_MutualExclusion == ~(NoticeInCycle /\ CircularInCycle)

\* the consequence: a save of the circular handler keeps every event that
\* the file held just before the save
NoLostUpdate ==
  [][last'.op = "save_circular" =>
       \A i \in 1..Len(ascii) : \E j \in 1..Len(ascii') :
          ascii'[j][cName] = ascii[i][cName]]_vars

\* the event name of a stored row has a row in the Ledger of the notices or
\* in the database of the circulars
HasLedgerRow(name) ==
  \/ \E k \in 1..Len(csv) : csv[k][cName] = name
  \/ \E k \in 1..Len(circ_csv) : circ_csv[k].event_name = name

\* C18: every row of the Active Window belongs to an event that has at least
\* one Ledger row, also when the Ledger append failed or was skipped.
C18_WindowRowHasLedgerRow ==
  \A i \in 1..Len(ascii) : HasLedgerRow(ascii[i][cName])

\* a row of the Active Window file with the eleven fields of the header
WellFormed(row) == Len(row) = 11
NameRemains(row, file) == \E j \in 1..Len(file) : file[j][cName] = row[cName]

\* C19: an upsert into an Active Window file with malformed rows completes,
\* for the notice writer and for the circular writer, and its load drops
\* exactly the malformed rows: every well-formed row is kept.
C19_DropsMalformedRows ==
  [][last'.op \in {"save_to_ascii", "update_ascii_database"} =>
       /\ last'.saved
       /\ \A i \in 1..Len(ascii) : NameRemains(ascii[i], ascii') <=> WellFormed(ascii[i])]_vars

\* C20: the scan of a Ledger file with rows of a wrong field count returns
\* the rows of nine fields, all of them and in file order, and no other row.
C20_SkipsExactlyBadRows ==
  last.op = "safe_csv_read" =>
    LET valid_rows == SelectSeq(csv, HasCsvFields)
    IN  /\ Len(last.df) = Len(valid_rows)
        /\ \A i \in 1..Len(valid_rows) : last.df[i][cName] = valid_rows[i][cName]


(***************************************************************************)
(* C21: after any sequence of writes of the ASCII file at most max_backups *)
(* backup files exist, and they are the most recently created ones: every  *)
(* backup file the last write removed was created before every backup file *)
(* that is left (the second in the name of a backup file is the second of  *)
(* its creation).                                                          *)
(***************************************************************************)
C21_KeepsMostRecentBackups ==
  /\ Cardinality(backups) <= max_backups
  /\ last.op = "save_ascii_with_backup" =>
       \A r \in last.removed : \A b \in backups : r < b.stamp

\* a write has pruned a backup file
C21_Witness ==
  /\ last.op = "save_ascii_with_backup"
  /\ last.removed # {}
  /\ Cardinality(backups) = max_backups


(***************************************************************************)
(* C22: every write that replaces an existing ASCII file, by either        *)
(* writer, leaves a backup file of its own that holds the rows the file    *)
(* had just before the write: a backup file that was not there before the  *)
(* write, also when the previous write was in the same second.  (Writes    *)
(* whose backup copy fails are left out.)                                  *)
(***************************************************************************)
ReplacesFile == mtime > 0 /\ mtime' # mtime
CopyFailed == ops' # ops /\ last'.op = "save_ascii_with_backup" /\ last'.copyFails
OwnBackup(b) ==
  /\ b.content = ascii
  /\ b.mtime = mtime
  /\ b.stamp \notin {f.stamp : f \in backups}

C22_BackupBeforeEveryWrite ==
  [][ReplacesFile /\ ~CopyFailed => \E b \in backups' : OwnBackup(b)]_vars


(***************************************************************************)
(* C23: when the backup copy fails, _create_backup_with_limit returns the  *)
(* empty path, no exception reaches _save_ascii_with_backup, and the ASCII *)
(* file is written with the new rows all the same.                         *)
(***************************************************************************)
C23_BackupFailureIsAValue ==
  [][CopyFailed =>
       /\ last'.path = NoPath
       /\ ~last'.raised
       /\ ascii' = update_ascii_database(last'.c, ascii,
                                         load_ascii_with_recovery(ascii), ops')
       /\ mtime' = ops'
       /\ backups' = backups]_vars

\* a write whose backup copy failed has rewritten the file
C23_Witness ==
  /\ last.op = "save_ascii_with_backup"
  /\ last.copyFails
  /\ last.path = NoPath
  /\ mtime = ops
  /\ ascii # <<>>


(***************************************************************************)
(* C24: the live stream handle (gcn_bot.consumer) is an open handle        *)
(* whenever no replacement is under way, in particular after a failed      *)
(* reconnection attempt, and the handle the main loop has picked up for    *)
(* its next poll is not closed under it.                                   *)
(***************************************************************************)
C24_LiveHandleOpen ==
  /\ Alive /\ consumer_lock = "none" => consumer \notin closed
  /\ main_loop.at = "picked" => main_loop.current \notin closed


(***************************************************************************)
(* C25: while the monitor waits out a backoff delay or the cooldown,       *)
(* closes the old handle or probes the new one, the main loop is not       *)
(* blocked: the lock that its next step needs (heartbeat_lock for the      *)
(* handling of a heartbeat, consumer_lock for the poll) is not held by the *)
(* monitor.                                                                *)
(***************************************************************************)
MonitorBusy == monitor.at \in {"backoff", "cooldown", "reconnect", "probing"}

C25_MainLoopNotBlocked ==
  MonitorBusy =>
    /\ main_loop.at = "heartbeat" => heartbeat_lock # "monitor"
    /\ main_loop.at = "loop" /\ running => consumer_lock # "monitor"


(***************************************************************************)
(* C26: the connection status follows Connected -> Disconnected ->         *)
(* Reconnecting -> Connected.  The status changes only in the check of the *)
(* monitor; the check declares Disconnected exactly when the time since    *)
(* last_heartbeat has reached CONNECTION_TIMEOUT, and Disconnected is      *)
(* followed by the backoff of a reconnection attempt; the monitor is in an *)
(* attempt only while Disconnected; the status returns to Connected only   *)
(* when last_heartbeat was set by a successful reconnection or by a        *)
(* heartbeat, less than CONNECTION_TIMEOUT ago.                            *)
(***************************************************************************)
IsCheck == monitor.at = "check" /\ monitor'.at \in {"sleep", "cooldown", "backoff"}
Reconnecting == monitor.at \in {"backoff", "reconnect", "probing"}

C26_StatusCycle ==
  /\ [][last_connection_status' # last_connection_status => IsCheck]_vars
  /\ [][IsCheck => (~last_connection_status'
                      <=> now - last_heartbeat >= CONNECTION_TIMEOUT)]_vars
  /\ [][last_connection_status /\ ~last_connection_status'
          => monitor'.at = "backoff"]_vars
  /\ [](Reconnecting => ~last_connection_status)
  /\ [][~last_connection_status /\ last_connection_status'
          => /\ beat_by \in {"heartbeat", "reconnected"}
             /\ now - last_heartbeat < CONNECTION_TIMEOUT]_vars

\* Connected again after a successful reconnection
C26_Witness ==
  /\ last_connection_status
  /\ beat_by = "reconnected"
  /\ monitor.at = "sleep"
  /\ checks > 1


(***************************************************************************)
(* C27: reconnect_attempts never exceeds max_reconnect_attempts.  At the   *)
(* maximum no reconnection attempt is made: the check of the monitor goes  *)
(* into the cooldown, and the counter leaves the maximum only by a reset   *)
(* to 0, at the end of the cooldown or at a check that finds the           *)
(* connection restored, so it is 0 before the next attempt.  A successful  *)
(* reconnection resets it to 0.                                            *)
(***************************************************************************)
C27_AttemptsBounded ==
  /\ [](reconnect_attempts \in 0..max_reconnect_attempts)
  /\ [](Reconnecting => reconnect_attempts < max_reconnect_attempts)
  /\ [][IsCheck /\ ~last_connection_status'
               /\ reconnect_attempts' = max_reconnect_attempts
          => monitor'.at = "cooldown"]_vars
  /\ [][reconnect_attempts = max_reconnect_attempts
               /\ reconnect_attempts' # reconnect_attempts
          => /\ reconnect_attempts' = 0
             /\ \/ monitor.at = "cooldown" /\ now' - now = Cooldown
                \/ IsCheck /\ last_connection_status']_vars
  /\ [][monitor.at = "probing" /\ consumer' # consumer
          => reconnect_attempts' = 0]_vars

\* an attempt after the maximum was reached and the cooldown has elapsed
C27_Witness ==
  /\ monitor.at = "reconnect"
  /\ reconnect_attempts = 0
  /\ handles = max_reconnect_attempts + 1
  /\ now >= Cooldown
  /\ beat_by = "trigger"


(***************************************************************************)
(* C28: the backoff delay for n failed attempts is min(2^n, cap) plus a    *)
(* jitter between 0 and 1 second; it is non-decreasing in n (the delay for *)
(* a larger n is never below the delay for a smaller n) and never exceeds  *)
(* cap + 1 seconds.  Delays are in units of 1/JitterSteps second.          *)
(***************************************************************************)
IsDelay == last.op = "backoff_delay"
DelayFormula ==
  /\ last.delay = base_delay(last.n) * JitterSteps + last.jitter
  /\ base_delay(last.n) = IF 2^last.n <= BackoffCap THEN 2^last.n ELSE BackoffCap
DelayBelowLimit == last.delay <= (BackoffCap + 1) * JitterSteps

StartsMessage == main_loop.at = "picked" /\ main_loop'.at \in {"heartbeat", "notice"}
StartsAttempt == monitor.at = "backoff" /\ monitor'.at = "reconnect"

C29_ShutdownStopsBoth ==
  /\ [][~running => ~StartsMessage]_vars
  /\ [][~running => ~StartsAttempt]_vars
  /\ [](main_loop.at = "exited" => consumer \in closed)
  /\ [][main_loop.at = "csv_saved" => main_loop'.at \in {"csv_saved", "loop"}]_vars


(***************************************************************************)
(* C30: in strict mode a notice is accepted only if every required field   *)
(* of its rule set is found in the text; in lenient mode a notice is       *)
(* accepted if and only if at least one field is found in the text; for    *)
(* the key-value format and for the JSON format alike.                     *)
(***************************************************************************)
C30_ParsingModes ==
  last.op = "parse" =>
    IF last.strict
    THEN last.accepted => last.present = last.required
    ELSE last.accepted <=> last.present # {}



(***************************************************************************)
(* C31: a notice whose extraction fails (no facility for the topic, a text *)
(* that matches no pattern, a pattern without a match in strict mode)      *)
(* leaves the CSV file, the ASCII file, the name cache and the sequence    *)
(* cache as they were, and the main loop is still running and at the top   *)
(* of the loop for the next message.                                       *)
(***************************************************************************)
ExtractionFails == ops' # ops /\ last'.op = "message" /\ ~last'.extracted
\* the letters the next allocation continues from: every allocation starts
\* with a forced _load_caches, which raises the cached letters to the Ledger's
SequenceState == TrackSequence(grb_name_cache, safe_csv_read(csv), 1)
C31_FailedExtractionChangesNothing ==
  [][ExtractionFails =>
       /\ UNCHANGED <<csv, ascii, circ_csv>>
       /\ SequenceState' = SequenceState
       /\ running' = TRUE
       /\ main_loop'.at = "loop"]_vars
\* a notice is stored right after a notice whose extraction failed in strict
\* mode for a missing pattern
C31_Witness ==
  /\ last.op = "message"
  /\ last.extracted
  /\ last.after_failure
  /\ Len(csv) = 1
  /\ \E k \in Prefixes \X Days : grb_name_cache[k] = 1


(***************************************************************************)
(* C32: parse_notice has no effect on shared state: a call changes neither *)
(* the name-sequence state nor the identity index nor a store file, and a  *)
(* second call on the same notice returns the same record as the first.    *)
(***************************************************************************)
\* parse_notice alone is what a notice in test mode runs
IsExtraction == ops' # ops /\ last'.op = "test"
\* the identities that have a name, in the cache or in the files
IdentityIndex ==
  LET nc == load_caches(FALSE, name_cache, grb_name_cache, safe_csv_read(csv),
                        read_ascii_whitespace(ascii)).nc
  IN  {nc[i] : i \in 1..Len(nc)}
SamePayload(a, b) == a.fac = b.fac /\ a.trig = b.trig /\ a.day = b.day
C32_ExtractionIsPure ==
  [][IsExtraction =>
       /\ UNCHANGED <<csv, ascii, circ_csv>>
       /\ SequenceState' = SequenceState
       /\ IdentityIndex' = IdentityIndex
       /\ (last.op = "test" /\ SamePayload(last.n, last'.n) => last'.res = last.res)]_vars


(***************************************************************************)
(* C33: between two notices the sequence cache in memory equals the cache  *)
(* that _load_caches builds from the CSV file alone, read from its first   *)
(* row into an empty cache: the same last letter for every (prefix, day),  *)
(* also after a notice that was given a name and whose row was not         *)
(* written.  (Before the first load after a start the cache is empty.)     *)
(***************************************************************************)
ReplayedSequence == TrackSequence(NoLetters, safe_csv_read(csv), 1)
C33_CacheEqualsReplay == cache_loaded => grb_name_cache = ReplayedSequence


(***************************************************************************)
(* C34: an event row written to the ASCII file by save_to_ascii and loaded *)
(* again, by the notice handler (line 1621) or by the circular handler     *)
(* (_load_ascii_with_recovery), has the same value in every column, also   *)
(* when columns of the row are empty.  An empty value is loaded as NaN, a  *)
(* number is compared by its text.                                         *)
(***************************************************************************)
SameValue(a, b) ==
  IF IsNA(a) \/ a = STR_EMPTY THEN IsNA(b) \/ b = STR_EMPTY
  ELSE ~(IsNA(b) \/ b = STR_EMPTY) /\ PyStr(a) = PyStr(b)
SameRow(a, b) == \A c \in ascii_columns : SameValue(a[c], b[c])
\* the last message has added a row to the file
WroteNewRow == last.op = "message" /\ last.saved /\ last.idx = 0
RoundTripNotice == WroteNewRow => SameRow(read_ascii_whitespace(ascii)[1], NewRow(last.nd))
RoundTripCircular == WroteNewRow => SameRow(load_ascii_with_recovery(ascii)[1], NewRow(last.nd))
C34_RoundTrip == RoundTripNotice /\ RoundTripCircular


(***************************************************************************)
(* C35: the handling of a heartbeat message sets last_heartbeat to the     *)
(* current time and nothing else: the CSV file, the ASCII file, the name   *)
(* caches, the attempt counter, the connection status and the consumer are *)
(* as before, and the main loop is back at the top of the loop without     *)
(* having gone through the handling of a notice or of an error.            *)
(***************************************************************************)
IsHeartbeat == main_loop.at = "heartbeat" /\ main_loop'.at # "heartbeat"
C35_HeartbeatOnlySetsTime ==
  [][IsHeartbeat =>
       /\ last_heartbeat' = now
       /\ main_loop'.at = "loop"
       /\ UNCHANGED <<storeVars, backupVars>>
       /\ UNCHANGED <<reconnect_attempts, last_connection_status, consumer, closed,
                      running, now>>]_vars
\* a heartbeat that the main loop had in hand is handled after a failed
\* attempt: the time is set and the counter keeps its value
C35_Witness ==
  /\ beat_by = "heartbeat"
  /\ main_loop.at = "loop"
  /\ last_heartbeat = now
  /\ now > 0
  /\ reconnect_attempts > 0


(***************************************************************************)
(* C36: trigger_reconnection, called by the main loop for a connection     *)
(* error, sets last_heartbeat back by more than CONNECTION_TIMEOUT; the    *)
(* time it has set is still there at the next check of the monitor, which  *)
(* declares the connection lost and starts a reconnection attempt; the     *)
(* main loop is still running and back at the top of its loop.             *)
(***************************************************************************)
IsTrigger == main_loop.at = "trigger" /\ main_loop'.at # "trigger"
TriggerSetsTimeBack ==
  [][IsTrigger =>
       /\ now - last_heartbeat' > CONNECTION_TIMEOUT
       /\ main_loop'.at = "loop"
       /\ UNCHANGED <<running, consumer, closed, reconnect_attempts>>]_vars
\* only a reconnection of the monitor takes the time of the trigger away
TriggerStaysInForce ==
  [][beat_by = "trigger" /\ beat_by' # "trigger" => monitor.at = "probing"]_vars
TriggeredCheckStartsAttempt ==
  [][IsCheck /\ beat_by = "trigger" =>
       ~last_connection_status' /\ monitor'.at = "backoff"]_vars
TriggerStaysUnlessHeartbeat ==
  [][beat_by = "trigger" /\ beat_by' # "trigger" =>
       monitor.at = "probing" \/ main_loop.at = "heartbeat"]_vars
TriggeredCheckReconnects ==
  [][IsCheck /\ beat_by = "trigger" =>
       /\ ~last_connection_status'
       /\ monitor'.at = (IF at_maximum(reconnect_attempts') THEN "cooldown" ELSE "backoff")]_vars
DistinctIdentities(i, j) ==
  \/ Family(ResolvedFacility(i)) # Family(ResolvedFacility(j))
  \/ ResolvedTrigger(i) # ResolvedTrigger(j)
C37_DistinctNames ==
  \A i, j \in 1..Len(resolved) :
     DistinctIdentities(i, j) => ResolvedName(i) # ResolvedName(j)


(***************************************************************************)
(* C38: the main loop and the monitor never wait for each other: in no     *)
(* state does the main loop stand before a lock that the monitor holds     *)
(* while the monitor stands before a lock that the main loop holds, and a  *)
(* thread that holds one of the two locks never stands before the other    *)
(* unless it is the monitor, which takes heartbeat_lock first.             *)
(***************************************************************************)
\* the thread stands before "with lock:"
MainBefore(lock) ==
  IF lock = "consumer_lock"
  THEN (main_loop.at = "loop" /\ running) \/ main_loop.at = "finally"
  ELSE main_loop.at \in {"heartbeat", "trigger"}
MonitorBefore(lock) ==
  IF lock = "consumer_lock"
  THEN monitor.at = "reconnect"
  ELSE monitor.at = "check" /\ running /\ Alive
Holder(lock) == IF lock = "consumer_lock" THEN consumer_lock ELSE heartbeat_lock
Locks == {"heartbeat_lock", "consumer_lock"}
Deadlock ==
  \E a, b \in Locks :
     /\ MainBefore(a) /\ Holder(a) = "monitor"
     /\ MonitorBefore(b) /\ Holder(b) = "main"
C38_NoDeadlock ==
  /\ ~Deadlock
  /\ \A a, b \in Locks : Holder(a) = "main" => ~MainBefore(b)
  /\ Holder("consumer_lock") = "monitor" => Holder("heartbeat_lock") = "monitor"
\* the monitor holds heartbeat_lock and stands before consumer_lock, which
\* the main loop holds
C38_Witness ==
  /\ MonitorBefore("consumer_lock")
  /\ Holder("heartbeat_lock") = "monitor"
  /\ Holder("consumer_lock") = "main"
  /\ main_loop.at = "reading"


(***************************************************************************)
(* C39: the position of a row of the ASCII file (RA, DEC, Error) is the    *)
(* one reported by the facility in the row's Facility field: whenever a    *)
(* notice or a circular changes the Facility field of a row, it carries a  *)
(* position and that position is stored in the row in the same write.      *)
(***************************************************************************)
\* the record merged by the last operation carries a position
CarriesPosition(l) ==
  IF l.op = "circular" THEN HasCoordinates(l.c)
  ELSE l.nd[cRA] # EMPTY /\ l.nd[cDEC] # EMPTY
CarriedPosition(l) ==
  IF l.op = "circular" THEN NumTok(Round5(l.c.pos)) ELSE l.nd[cRA]
CarriedFacility(l) == FacTok(IF l.op = "circular" THEN l.c.fac ELSE l.n.fac)
\* row b of the file after the step is row a with another facility
FacilityChanged(a, b) ==
  /\ a[cName] = b[cName]
  /\ a[cFacility].kind = "fac"
  /\ b[cFacility].kind = "fac"
  /\ a[cFacility] # b[cFacility]
C39_FacilityComesWithPosition ==
  [][\A i \in 1..Len(ascii), j \in 1..Len(ascii') :
        FacilityChanged(ascii[i], ascii'[j]) =>
          /\ CarriesPosition(last')
          /\ ascii'[j][cFacility] = CarriedFacility(last')
          /\ ascii'[j][cRA] = CarriedPosition(last')]_vars
\* the same for the writes of the circular handler alone
CircularFacilityComesWithPosition ==
  [][last'.op = "circular" =>
       \A i \in 1..Len(ascii), j \in 1..Len(ascii') :
          FacilityChanged(ascii[i], ascii'[j]) =>
            /\ CarriesPosition(last')
            /\ ascii'[j][cFacility] = CarriedFacility(last')
            /\ ascii'[j][cRA] = CarriedPosition(last')]_vars


(***************************************************************************)
(* C40: when the new stream handles fetch without error from some handle   *)
(* on, a disconnect that the monitor has declared after a connection error *)
(* leads to a state in which a working handle is installed, the status is  *)
(* Connected and the attempt counter is 0, through the failed attempts and *)
(* the cooldown if there are any.                                          *)
(***************************************************************************)
Reconnected ==
  /\ last_connection_status
  /\ reconnect_attempts = 0
  /\ consumer \notin closed
  /\ consumer > 0
C40_EventuallyReconnected ==
  (~last_connection_status /\ beat_by = "trigger") ~> Reconnected
\* Connected again after five failed attempts and the cooldown
C40_Witness ==
  /\ Reconnected
  /\ beat_by = "reconnected"
  /\ now >= ReconnectTime(max_reconnect_attempts) + Cooldown
  /\ Cardinality(closed) > max_reconnect_attempts

\* each start of the reconnection is a state of the bot after k failed
\* attempts, up to the count of checks
ReconnectStart(k) ==
  /\ reconnect_attempts = k
  /\ now = ReconnectTime(k)
  /\ monitor = [at |-> "check", wake |-> ReconnectTime(k)]
  /\ last_connection_status = (k = 0)
  /\ closed = (IF k = 0 THEN {} ELSE 0..k)
  /\ handles = k + 1
  /\ last_heartbeat = 0 - (CONNECTION_TIMEOUT + 1)
  /\ beat_by = "trigger"
  /\ consumer = 0
  /\ heartbeat_lock = "none"
  /\ consumer_lock = "none"
  /\ main_loop = [at |-> "loop", current |-> 0]
  /\ running
ReconnectStart0 == ReconnectStart(0)
ReconnectStart3 == ReconnectStart(3)
ReconnectStart5 == ReconnectStart(5)

=============================================================================
